---- MODULE Spec2Model ----
(***************************************************************************)
(* Report-derivation pipeline of Chicago_BI (src/cmd/reports) together     *)
(* with the collectors that own the source tables (src/cmd/collectors).    *)
(*                                                                         *)
(* The relational store is modelled at schema level: a table is absent or  *)
(* holds a row count, the derived columns that were added, the derived     *)
(* columns that were filled by an UPDATE, and the provenance of its        *)
(* contents: the source snapshots they were computed from, each as         *)
(* <<source table, rows it held, whether its collector had finished>>.     *)
(* RebuildSpec, ContentSpec, FlagSpec and ZipSpec, further down, model the *)
(* store at row level: there a table is the set of its rows.               *)
(***************************************************************************)
EXTENDS Integers, Sequences, FiniteSets, TLC

(***************************************************************************)
(* Bounds of the model.                                                    *)
(***************************************************************************)
MaxRows == 2            \* rows a collector inserts into one table at most
MaxCollectorSteps == 3  \* statements the collectors execute in one behaviour
MaxCycles == 2          \* report cycles the orchestrator starts at most

(***************************************************************************)
(* Table names.                                                            *)
(***************************************************************************)
disadvantagedTable == "disadvantaged"
publichealthTable == "public_health"
buildingPermits == "building_permits"
disadvantagedPermitsTable == "report_7_disadv_perm"
ccviTable == "ccvi"
covidTable == "covid"
taxiTripsTable == "taxi_trips"

covidRepCatsTable == "covid_rep_cats"
covidAlertsTable == "req_1a_covid_alerts_drivers"
covidAlertsResidents == "req_1b_covid_alerts_residents"
reqAirportTripsTable == "req_2_airport_trips"
CCVITable == "req_3_ccvi_trips"
dailyTripsTable == "req_4_daily_trips"
weeklyTripsTable == "req_4_weekly_trips"
monthlyTripsTable == "req_4_monthly_trips"
weeklyPickupTable == "weekly_trips_by_pickup_and_zip"
weeklyDropoffTable == "weekly_trips_by_dropoff_and_zip"
reqAirportTripsSorted == "req_2_airport_trips_sorted"
CCVISorted == "req_3_ccvi_trips_sorted"

\* SourceTables, in the order WaitForTablesReady polls them.
SourceTables ==
  <<buildingPermits, ccviTable, covidTable, publichealthTable, taxiTripsTable>>

SourceSet == {SourceTables[i] : i \in 1..Len(SourceTables)}

\* Tables written by CreateCovidCategoryReport.
CovidOwned ==
  {covidRepCatsTable, covidAlertsTable, covidAlertsResidents,
   reqAirportTripsTable, reqAirportTripsSorted, CCVITable, CCVISorted,
   dailyTripsTable, weeklyTripsTable, monthlyTripsTable,
   weeklyPickupTable, weeklyDropoffTable}

\* Tables written by CreateDisadvantagedReport.
DisadvantagedOwned == {disadvantagedTable, disadvantagedPermitsTable}

ReportSet == CovidOwned \cup DisadvantagedOwned

AllTables == SourceSet \cup ReportSet

(***************************************************************************)
(* Table values.                                                           *)
(***************************************************************************)
Absent == [exists |-> FALSE, rows |-> 0, cols |-> {}, set |-> {}, prov |-> {}]

SourceValue(n) ==
  [exists |-> TRUE, rows |-> n, cols |-> {}, set |-> {}, prov |-> {}]

\* The source snapshots a table's contents were computed from.
ProvOf(V, s) == V[s].prov

(***************************************************************************)
(* SQL statements of the builders.  op is the kind of statement, t the     *)
(* table it writes, from the tables it reads, cols the derived columns it  *)
(* adds, sets or creates, reads the derived columns it reads (as           *)
(* <<table, column>>), ifx the IF EXISTS of a DROP, to the new name of a   *)
(* RENAME.                                                                 *)
(***************************************************************************)
Stmt(op, t, from, cols, reads, ifx, to) ==
  [op |-> op, t |-> t, from |-> from, cols |-> cols, reads |-> reads,
   ifx |-> ifx, to |-> to]

DropIfExists(t) == Stmt("drop", t, {}, {}, {}, TRUE, "")
DropTable(t) == Stmt("drop", t, {}, {}, {}, FALSE, "")
CreateAsTable(t, s) == Stmt("copy", t, {s}, {}, {}, FALSE, "")
\* CREATE TABLE t AS SELECT * FROM s ORDER BY ...: the rows and columns of s.
CreateAsSelectAll(t, s) == Stmt("copy", t, {s}, {}, {}, FALSE, "")
CreateAsSelect(t, from, cols, reads) ==
  Stmt("select", t, from, cols, reads, FALSE, "")
AddColumn(t, cols) == Stmt("addcol", t, {}, cols, {}, FALSE, "")
Update(t, cols, from, reads) == Stmt("update", t, from, cols, reads, FALSE, "")
RenameTable(t, to) == Stmt("rename", t, {}, {}, {}, FALSE, to)
RenameColumn(t, c, to) == Stmt("renamecol", t, {}, {c}, {}, FALSE, to)

\* Whether the engine accepts statement s in the view V of the database.
StmtOk(V, s) ==
  /\ \A f \in s.from : V[f].exists
  /\ \A r \in s.reads : V[r[1]].exists /\ r[2] \in V[r[1]].cols
  /\ CASE s.op = "drop" -> s.ifx \/ V[s.t].exists
       [] s.op = "copy" -> ~V[s.t].exists
       [] s.op = "select" -> ~V[s.t].exists
       [] s.op = "addcol" -> V[s.t].exists /\ s.cols \cap V[s.t].cols = {}
       [] s.op = "update" -> V[s.t].exists /\ s.cols \subseteq V[s.t].cols
       [] s.op = "rename" -> V[s.t].exists /\ ~V[s.to].exists
       [] s.op = "renamecol" ->
            /\ V[s.t].exists
            /\ s.cols \subseteq V[s.t].cols
            /\ s.to \notin V[s.t].cols

RenameIn(S, old, new) ==
  IF old \cap S = {} THEN S ELSE (S \ old) \cup {new}

\* The view after the engine executed statement s in the view V.
StmtEffect(V, s) ==
  LET src == CHOOSE f \in s.from : \A g \in s.from : V[f].rows <= V[g].rows
      read == UNION {ProvOf(V, f) : f \in s.from}
  IN CASE s.op = "drop" -> [V EXCEPT ![s.t] = Absent]
       [] s.op = "copy" ->
            [V EXCEPT ![s.t] = [exists |-> TRUE, rows |-> V[src].rows,
                                cols |-> V[src].cols, set |-> V[src].set,
                                prov |-> ProvOf(V, src)]]
       [] s.op = "select" ->
            [V EXCEPT ![s.t] = [exists |-> TRUE, rows |-> V[src].rows,
                                cols |-> s.cols, set |-> s.cols,
                                prov |-> read]]
       [] s.op = "addcol" ->
            [V EXCEPT ![s.t].cols = @ \cup s.cols]
       [] s.op = "update" ->
            [V EXCEPT ![s.t].set = @ \cup s.cols,
                      ![s.t].prov = @ \cup read]
       [] s.op = "rename" ->
            [V EXCEPT ![s.to] = V[s.t], ![s.t] = Absent]
       [] s.op = "renamecol" ->
            [V EXCEPT ![s.t].cols = RenameIn(@, s.cols, s.to),
                      ![s.t].set = RenameIn(@, s.cols, s.to)]

(***************************************************************************)
(* CreateCovidCategoryReport: the statement list, in execution order.      *)
(***************************************************************************)
CovidStatements ==
  LET target == covidRepCatsTable
      alerts == covidAlertsTable
      residents == covidAlertsResidents
      airport == reqAirportTripsTable
  IN <<
    DropIfExists(target),
    CreateAsTable(target, covidTable),
    AddColumn(target, {"covid_cat"}),
    Update(target, {"covid_cat"}, {}, {}),
    DropIfExists(alerts),
    CreateAsTable(alerts, taxiTripsTable),
    AddColumn(alerts, {"airport_dropoff"}),
    AddColumn(alerts, {"airport_pickup"}),
    Update(alerts, {"airport_dropoff"}, {}, {}),
    Update(alerts, {"airport_pickup"}, {}, {}),
    AddColumn(alerts, {"day"}),
    Update(alerts, {"day"}, {}, {}),
    AddColumn(alerts, {"week_start"}),
    Update(alerts, {"week_start"}, {}, {}),
    AddColumn(alerts, {"month_start"}),
    Update(alerts, {"month_start"}, {}, {}),
    DropIfExists(airport),
    CreateAsTable(airport, target),
    AddColumn(airport, {"trips_to_airport"}),
    AddColumn(airport, {"trips_from_airport"}),
    Update(airport, {"trips_to_airport"}, {alerts},
           {<<alerts, "airport_dropoff">>, <<alerts, "week_start">>}),
    Update(airport, {"trips_from_airport"}, {alerts},
           {<<alerts, "airport_pickup">>, <<alerts, "week_start">>}),
    DropIfExists(reqAirportTripsSorted),
    CreateAsSelectAll(reqAirportTripsSorted, airport),
    DropTable(airport),
    RenameTable(reqAirportTripsSorted, airport),
    AddColumn(alerts, {"pickup_covid_cat"}),
    AddColumn(alerts, {"dropoff_covid_cat"}),
    Update(alerts, {"pickup_covid_cat"}, {target},
           {<<target, "covid_cat">>, <<alerts, "week_start">>}),
    Update(alerts, {"dropoff_covid_cat"}, {target},
           {<<target, "covid_cat">>, <<alerts, "week_start">>}),
    DropIfExists(weeklyPickupTable),
    CreateAsSelect(weeklyPickupTable, {alerts}, {"week_start", "weekly_pickups"},
                   {<<alerts, "week_start">>}),
    DropIfExists(weeklyDropoffTable),
    CreateAsSelect(weeklyDropoffTable, {alerts},
                   {"week_start", "weekly_dropoffs"},
                   {<<alerts, "week_start">>}),
    DropIfExists(residents),
    CreateAsTable(residents, target),
    AddColumn(residents, {"weekly_dropoffs"}),
    Update(residents, {"weekly_dropoffs"}, {weeklyDropoffTable},
           {<<weeklyDropoffTable, "weekly_dropoffs">>,
            <<weeklyDropoffTable, "week_start">>}),
    AddColumn(residents, {"weekly_pickups"}),
    Update(residents, {"weekly_pickups"}, {weeklyPickupTable},
           {<<weeklyPickupTable, "weekly_pickups">>,
            <<weeklyPickupTable, "week_start">>}),
    DropIfExists(dailyTripsTable),
    CreateAsSelect(dailyTripsTable, {alerts}, {"day", "trips"},
                   {<<alerts, "day">>}),
    DropIfExists(weeklyTripsTable),
    CreateAsSelect(weeklyTripsTable, {alerts}, {"week_start", "trips"},
                   {<<alerts, "week_start">>}),
    DropIfExists(CCVITable),
    CreateAsSelect(CCVITable, {alerts, ccviTable},
                   {"week_start", "weekly_trips"},
                   {<<alerts, "week_start">>}),
    DropIfExists(CCVISorted),
    CreateAsSelectAll(CCVISorted, CCVITable),
    DropTable(CCVITable),
    RenameTable(CCVISorted, CCVITable),
    DropIfExists(monthlyTripsTable),
    CreateAsSelect(monthlyTripsTable, {alerts}, {"month_start", "trips"},
                   {<<alerts, "month_start">>})
  >>

(***************************************************************************)
(* CreateDisadvantagedReport: the statement list, in execution order.      *)
(***************************************************************************)
Flags == {"top_5_poverty", "top_5_unemployment", "disadvantaged"}

\* Mutant of DisadvantagedStatements: the flags are copied to the permits
\* before the statements that compute them.
DisadvantagedStatementsFlagsEarly ==
  LET target == disadvantagedTable
      permits == disadvantagedPermitsTable
  IN <<
    DropIfExists(permits),
    CreateAsTable(permits, buildingPermits),
    AddColumn(permits, {"point"}),
    AddColumn(permits, {"zip_code"}),
    Update(permits, {"point"}, {}, {}),
    AddColumn(permits, Flags),
    DropIfExists(target),
    CreateAsTable(target, publichealthTable),
    AddColumn(target, {"zip_code"}),
    AddColumn(target, Flags),
    Update(permits, Flags, {target},
           {<<target, "top_5_poverty">>, <<target, "top_5_unemployment">>,
            <<target, "disadvantaged">>}),
    Update(target, {"top_5_poverty"}, {target}, {}),
    Update(target, {"top_5_unemployment"}, {target}, {}),
    Update(target, {"disadvantaged"}, {},
           {<<target, "top_5_poverty">>, <<target, "top_5_unemployment">>}),
    RenameColumn(permits, "disadvantaged", "waived_fee")
  >>

DisadvantagedStatements ==
  LET target == disadvantagedTable
      permits == disadvantagedPermitsTable
  IN <<
    DropIfExists(permits),
    CreateAsTable(permits, buildingPermits),
    AddColumn(permits, {"point"}),
    AddColumn(permits, {"zip_code"}),
    Update(permits, {"point"}, {}, {}),
    AddColumn(permits, Flags),
    DropIfExists(target),
    CreateAsTable(target, publichealthTable),
    AddColumn(target, {"zip_code"}),
    AddColumn(target, Flags),
    Update(target, {"top_5_poverty"}, {target}, {}),
    Update(target, {"top_5_unemployment"}, {target}, {}),
    Update(target, {"disadvantaged"}, {},
           {<<target, "top_5_poverty">>, <<target, "top_5_unemployment">>}),
    Update(permits, Flags, {target},
           {<<target, "top_5_poverty">>, <<target, "top_5_unemployment">>,
            <<target, "disadvantaged">>}),
    RenameColumn(permits, "disadvantaged", "waived_fee")
  >>

\* populateDisadvantagedZipCodes / populatePermitZipCodes: the statements
\* they issue on the table they are given.
ClearZipStmt(t) == Update(t, {"zip_code"}, {}, {})
CrosswalkZipStmt(t) == Update(t, {"zip_code"}, {}, {})

(***************************************************************************)
(* The tables and derived columns (as <<table, column>>, "*" for the table *)
(* itself) that the open transaction has built so far.                     *)
(***************************************************************************)
Items(t, cols) == {<<t, c>> : c \in cols}

BuiltEffect(B, s) ==
  LET mine == {b \in B : b[1] = s.t}
      others == B \ mine
      src == CHOOSE f \in s.from : TRUE
      inherited == {<<s.t, b[2]>> : b \in {x \in B : x[1] = src /\ x[2] # "*"}}
  IN CASE s.op = "drop" -> others
       [] s.op = "copy" -> others \cup {<<s.t, "*">>} \cup inherited
       [] s.op = "select" -> others \cup {<<s.t, "*">>} \cup Items(s.t, s.cols)
       [] s.op = "addcol" -> B
       [] s.op = "update" -> B \cup Items(s.t, s.cols)
       [] s.op = "rename" ->
            {b \in others : b[1] # s.to} \cup {<<s.to, b[2]>> : b \in mine}
       [] s.op = "renamecol" ->
            IF Items(s.t, s.cols) \subseteq B
            THEN (B \ Items(s.t, s.cols)) \cup {<<s.t, s.to>>}
            ELSE B \ Items(s.t, s.cols)

\* What statement s reads of the report tables: derived tables and columns.
DerivedReads(s) == {<<f, "*">> : f \in s.from \cap ReportSet} \cup s.reads

\* The derived tables and columns s reads that the transaction has not built.
StaleReads(B, s) == DerivedReads(s) \ B

(***************************************************************************)
(* Errors: the chain of wrapped errors, outermost first; Nil is no error.  *)
(* A layer holds its message and the table name its text contains.         *)
(***************************************************************************)
Nil == <<>>
Layer(msg, arg) == [msg |-> msg, arg |-> arg]
NewError(msg, arg) == <<Layer(msg, arg)>>
\* fmt.Errorf("...: %w", err)
Wrap(msg, err) == <<Layer(msg, "")>> \o err
CtxErr == NewError("context canceled", "")
\* errors.Is(err, target)
Is(err, target) == \E i \in 1..Len(err) : err[i] = target[1]
\* the error text contains the table name
Names(err, t) == \E i \in 1..Len(err) : err[i].arg = t

VARIABLES
  db,            \* the committed database: table name -> table value
  cpc,           \* collectors: source table -> position of its goroutine
  csteps,        \* statements the collectors have executed
  ctxCancelled,  \* the orchestrator's context was cancelled by a signal
  runOnce,       \* RUN_ONCE=true
  pc,            \* position of the reports orchestrator's main goroutine
  idx,           \* index into the table list or statement list at pc
  tickPending,   \* a tick waits in the 24-hour ticker's channel
  cycles,        \* report cycles started
  ticksTaken,    \* ticks the main loop received
  tx,            \* the open transaction's view of the report tables
  txOpen,        \* a transaction is open
  txAborted,     \* a statement of the open transaction failed
  txBuilt,       \* derived tables and columns built by the open transaction
  txLocks,       \* source tables the open transaction has read
  lastErr,       \* WaitForTablesReady's lastErr
  gateErr,       \* what WaitForTablesReady returned
  ret,           \* the builder called last and how its call ended
  seen,          \* source table -> what ensureTableReady last found
  pollCancelled, \* ctx was cancelled when the current poll iteration began
  pre,           \* the report tables when the latest builder call began
  calls,         \* builder -> calls so far
  begins,        \* transactions the latest builder call began
  execs,         \* statements the latest builder call sent to the engine
  crosswalkFile, \* src/data/community_area_to_zip_code.csv
  loaded,        \* what loadCommunityAreaZipCodes last returned
  ident          \* the name given to quoteIdentifier and what it returned

vars ==
  <<db, cpc, csteps, ctxCancelled, runOnce, pc, idx, tickPending, cycles,
    ticksTaken, tx, txOpen, txAborted, txBuilt, txLocks,
    lastErr, gateErr, ret, seen, pollCancelled, pre, calls, begins, execs,
    crosswalkFile, loaded, ident>>

\* The environment of the process and what it last read of it.
envVars == <<runOnce, crosswalkFile, loaded, ident>>
collectorVars == <<cpc, csteps>>
txVars == <<tx, txOpen, txAborted, txBuilt, txLocks>>
gateVars == <<lastErr, gateErr, pollCancelled>>
loopVars == <<tickPending, cycles, ticksTaken>>
histVars == <<pre, calls, begins, execs>>

Builders == {"covid", "disadvantaged"}
NoTx == [t \in ReportSet |-> Absent]
Unseen == [seen |-> FALSE, exists |-> FALSE, nonempty |-> FALSE]

\* A text is the sequence of its characters; a word that is compared as a
\* whole is one character of the sequence.
Text(word) == <<word>>
\* quoteIdentifier has not been called.
NotQuoted == [called |-> FALSE, name |-> <<>>, quoted |-> <<>>]
\* loadCommunityAreaZipCodes has not been called.
NotLoaded == [called |-> FALSE, err |-> Nil, map |-> <<>>]

\* A file of a header and two community areas.
SomeCrosswalk ==
  [exists |-> TRUE,
   records |-> << <<Text("community_area"), Text("zip_code")>>,
                  <<Text("5"), Text("60615")>>,
                  <<Text("6"), Text("60637")>> >>]

NotCalled ==
  [who |-> "", state |-> "none", err |-> Nil, dep |-> "", dirty |-> FALSE]

(***************************************************************************)
(* ensureTableReady: the to_regclass query finds the table or not, the     *)
(* count query counts its rows.  The two queries are taken as one          *)
(* observation of the table: a table dropped between them makes the count  *)
(* fail, which is an error naming the table as well.                       *)
(***************************************************************************)
\* Mutant of ensureTableReady: the row count is not looked at.
ensureTableReadyIgnoringRows(d, tableName) ==
  IF ~d[tableName].exists
  THEN NewError("required table does not exist", tableName)
  ELSE Nil

ensureTableReady(d, tableName) ==
  IF ~d[tableName].exists
  THEN NewError("required table does not exist", tableName)
  ELSE IF d[tableName].rows = 0
       THEN NewError("required table has no data to report on", tableName)
       ELSE Nil

\* What the two queries of ensureTableReady find of table t.
Observe(d, t) ==
  [seen |-> TRUE, exists |-> d[t].exists, nonempty |-> d[t].rows > 0]
Ready(o) == o.seen /\ o.exists /\ o.nonempty

(***************************************************************************)
(* Collectors: main launches one goroutine per dataset; each drops its     *)
(* table, creates it again and inserts the fetched records one statement   *)
(* at a time, every statement committed on its own.                        *)
(***************************************************************************)
\* Whether, with the collectors at positions c, the collector of table t is
\* between its drop and its last insert.
Collecting(c, t) == c[t] \in {"create", "insert"}

\* collectors main: go GetUnemploymentRates(db); go GetBuildingPermits(db); ...
CollectorLaunch ==
  /\ \A t \in SourceSet : cpc[t] = "idle"
  /\ csteps < MaxCollectorSteps
  /\ cpc' = [t \in SourceSet |-> "drop"]
  /\ UNCHANGED <<db, csteps, ctxCancelled, envVars, pc, idx, loopVars, txVars,
                 gateVars, ret, seen, histVars>>

\* drop table if exists t; waits while a transaction that read t is open.
CollectorDrop(t) ==
  /\ cpc[t] = "drop"
  /\ csteps < MaxCollectorSteps
  /\ t \notin txLocks
  /\ db' = [db EXCEPT ![t] = Absent]
  /\ cpc' = [cpc EXCEPT ![t] = "create"]
  /\ csteps' = csteps + 1
  /\ UNCHANGED <<ctxCancelled, envVars, pc, idx, loopVars, txVars,
                 gateVars, ret, seen, histVars>>

\* CREATE TABLE IF NOT EXISTS t, then the fetch: no record ends the run.
CollectorCreate(t) ==
  /\ cpc[t] = "create"
  /\ csteps < MaxCollectorSteps
  /\ db' = [db EXCEPT ![t] = IF @.exists THEN @ ELSE SourceValue(0)]
  /\ \E more \in BOOLEAN :
       cpc' = [cpc EXCEPT ![t] = IF more THEN "insert" ELSE "idle"]
  /\ csteps' = csteps + 1
  /\ UNCHANGED <<ctxCancelled, envVars, pc, idx, loopVars, txVars,
                 gateVars, ret, seen, histVars>>

\* INSERT INTO t of one fetched record; the last one ends the run.
CollectorInsert(t) ==
  /\ cpc[t] = "insert"
  /\ csteps < MaxCollectorSteps
  /\ db[t].rows < MaxRows
  /\ db' = [db EXCEPT ![t].rows = @ + 1]
  /\ \E more \in BOOLEAN :
       cpc' = [cpc EXCEPT ![t] =
                 IF more /\ db[t].rows + 1 < MaxRows THEN "insert" ELSE "idle"]
  /\ csteps' = csteps + 1
  /\ UNCHANGED <<ctxCancelled, envVars, pc, idx, loopVars, txVars,
                 gateVars, ret, seen, histVars>>

Collector ==
  \E t \in SourceSet : CollectorDrop(t) \/ CollectorCreate(t) \/ CollectorInsert(t)

(***************************************************************************)
(* SIGINT / SIGTERM: signal.NotifyContext cancels ctx.                     *)
(***************************************************************************)
Running == pc \notin {"exit", "fatal"}

Cancel ==
  /\ Running
  /\ ~ctxCancelled
  /\ ctxCancelled' = TRUE
  /\ UNCHANGED <<db, collectorVars, envVars, pc, idx, loopVars, txVars,
                 gateVars, ret, seen, histVars>>

(***************************************************************************)
(* The transaction's view of the database (READ COMMITTED): its own        *)
(* writes to the report tables, the committed source tables.               *)
(***************************************************************************)
View(d, t, c) ==
  [x \in AllTables |->
     IF x \in ReportSet
     THEN t[x]
     ELSE [d[x] EXCEPT !.prov = {<<x, d[x].rows, ~Collecting(c, x)>>}]]

ReportPart(V) == [t \in ReportSet |-> V[t]]

\* tx.Commit(): the transaction's writes become the committed state.
Commit(d, t) == [x \in AllTables |-> IF x \in ReportSet THEN t[x] ELSE d[x]]

\* Mutant of Rollback: the writes of the failed transaction stay.
RollbackKeepsWrites(d, t) == Commit(d, t)

\* tx.Rollback(): the transaction's writes are discarded.
Rollback(d, t) == d

CloseTx ==
  /\ txOpen' = FALSE
  /\ tx' = NoTx
  /\ txAborted' = FALSE
  /\ txBuilt' = {}
  /\ txLocks' = {}

\* How the call of builder b stands: running, or returned nil or an error;
\* dep is the dependency the error is about, dirty whether the call's
\* transaction had changed a report table when the call ended.
Returned(b, state, err, dep, dirty) ==
  ret' = [who |-> b, state |-> state, err |-> err, dep |-> dep,
          dirty |-> dirty]

Dirty == txOpen /\ tx # ReportPart(db)

(***************************************************************************)
(* WaitForTablesReady(ctx, db, pollInterval, SourceTables...)              *)
(***************************************************************************)
GatePcs == {"gate_top", "gate_poll", "gate_select"}

\* Mutant of AfterGate: main goes on whatever the gate returned.
AfterGateIgnoringError(err) == IF runOnce THEN "run_once" ELSE "loop_top"

\* main: log.Fatalf on an error of the gate, else RUN_ONCE or the loop.
AfterGate(err) ==
  IF err # Nil THEN "fatal" ELSE IF runOnce THEN "run_once" ELSE "loop_top"

\* Mutant of GateTop: the loop does not look at ctx.Err() before it polls.
GateTopWithoutCtxCheck ==
  /\ pc = "gate_top"
  /\ pc' = "gate_poll"
  /\ idx' = 1
  /\ lastErr' = Nil
  /\ pollCancelled' = ctxCancelled
  /\ seen' = [t \in SourceSet |-> Unseen]
  /\ UNCHANGED <<db, collectorVars, ctxCancelled, envVars, loopVars, txVars,
                 gateErr, ret, histVars>>

\* for { if ctx.Err() != nil { return ctx.Err() } ...
GateTop ==
  /\ pc = "gate_top"
  /\ IF ctxCancelled
     THEN /\ gateErr' = CtxErr
          /\ pc' = AfterGate(CtxErr)
          /\ UNCHANGED <<idx, lastErr, pollCancelled, seen>>
     ELSE /\ pc' = "gate_poll"
          /\ idx' = 1
          /\ lastErr' = Nil
          /\ pollCancelled' = ctxCancelled
          /\ seen' = [t \in SourceSet |-> Unseen]
          /\ UNCHANGED gateErr
  /\ UNCHANGED <<db, collectorVars, ctxCancelled, envVars, loopVars, txVars,
                 ret, histVars>>

\* for _, table := range tables { if err := ensureTableReady(db, table) ...
GatePoll ==
  /\ pc = "gate_poll"
  /\ LET table == SourceTables[idx]
         err == ensureTableReady(db, table)
     IN /\ seen' = [seen EXCEPT ![table] = Observe(db, table)]
        /\ IF err # Nil
           THEN /\ lastErr' = err
                /\ pc' = "gate_select"
                /\ UNCHANGED <<idx, gateErr>>
           ELSE IF idx < Len(SourceTables)
                THEN /\ idx' = idx + 1
                     /\ UNCHANGED <<pc, lastErr, gateErr>>
                ELSE /\ gateErr' = Nil
                     /\ pc' = AfterGate(Nil)
                     /\ idx' = 1
                     /\ UNCHANGED lastErr
  /\ UNCHANGED <<db, collectorVars, ctxCancelled, envVars, loopVars, txVars,
                 pollCancelled, ret, histVars>>

\* Mutant of GateCancelled: case <-ctx.Done(): return ctx.Err()
GateCancelledWithoutReason ==
  /\ pc = "gate_select"
  /\ ctxCancelled
  /\ gateErr' = CtxErr
  /\ pc' = AfterGate(CtxErr)
  /\ UNCHANGED <<db, collectorVars, ctxCancelled, envVars, idx, loopVars,
                 txVars, lastErr, pollCancelled, ret, seen, histVars>>

\* select { case <-ctx.Done(): ... return fmt.Errorf("...: %w", lastErr)
GateCancelled ==
  /\ pc = "gate_select"
  /\ ctxCancelled
  /\ LET err == IF lastErr # Nil
                THEN Wrap("context canceled while waiting for tables", lastErr)
                ELSE CtxErr
     IN /\ gateErr' = err
        /\ pc' = AfterGate(err)
  /\ UNCHANGED <<db, collectorVars, ctxCancelled, envVars, idx, loopVars,
                 txVars, lastErr, pollCancelled, ret, seen,
                 histVars>>

\* select { ... case <-ticker.C: }
GateTick ==
  /\ pc = "gate_select"
  /\ pc' = "gate_top"
  /\ UNCHANGED <<db, collectorVars, ctxCancelled, envVars, idx, loopVars,
                 txVars, gateVars, ret, seen, histVars>>

(***************************************************************************)
(* Steps shared by the two builders.  What no builder step changes:        *)
(***************************************************************************)
BuilderFrame ==
  UNCHANGED <<collectorVars, ctxCancelled, envVars, loopVars, gateVars>>

DbErr == NewError("pq: statement failed", "")

\* if err := ensureTableReady(db, deps[idx]); err != nil { return err }
BuilderDep(b, deps, begin, out) ==
  LET table == deps[idx]
      err == ensureTableReady(db, table)
  IN /\ seen' = [seen EXCEPT ![table] = Observe(db, table)]
     /\ IF err # Nil
        THEN /\ Returned(b, "error", err, table, FALSE)
             /\ pc' = out
             /\ idx' = 1
        ELSE IF idx < Len(deps)
             THEN /\ idx' = idx + 1
                  /\ UNCHANGED <<pc, ret>>
             ELSE /\ pc' = begin
                  /\ UNCHANGED <<idx, ret>>
     /\ UNCHANGED <<db, txVars, histVars>>
     /\ BuilderFrame

\* tx, err := db.Begin()
BuilderBegin(b, next, out, msg) ==
  /\ \E ok \in BOOLEAN :
       IF ok
       THEN /\ txOpen' = TRUE
            /\ tx' = ReportPart(db)
            /\ txAborted' = FALSE
            /\ txBuilt' = {}
            /\ txLocks' = {}
            /\ begins' = begins + 1
            /\ pc' = next
            /\ idx' = 1
            /\ UNCHANGED ret
       ELSE /\ Returned(b, "error", Wrap(msg, DbErr), "", FALSE)
            /\ pc' = out
            /\ idx' = 1
            /\ UNCHANGED <<txVars, begins>>
  /\ UNCHANGED <<db, seen, pre, calls, execs>>
  /\ BuilderFrame

\* tx.Exec(s): on success the builder goes on at okPc, okIdx; on an error
\* it calls tx.Rollback() and returns the error wrapped in msg.
ExecInTx(b, s, okPc, okIdx, out, msg) ==
  /\ \E fail \in BOOLEAN :
       LET V == View(db, tx, cpc)
       IN IF ~fail /\ ~txAborted /\ StmtOk(V, s)
          THEN /\ tx' = ReportPart(StmtEffect(V, s))
               /\ txBuilt' = BuiltEffect(txBuilt, s)
               /\ txLocks' = txLocks \cup (s.from \cap SourceSet)
               /\ pc' = okPc
               /\ idx' = okIdx
               /\ execs' = execs + 1
               /\ UNCHANGED <<db, txOpen, txAborted, ret, begins>>
          ELSE /\ db' = Rollback(db, tx)
               /\ CloseTx
               /\ Returned(b, "error", Wrap(msg, DbErr), "", Dirty)
               /\ pc' = out
               /\ idx' = 1
               /\ execs' = 0
               /\ begins' = 0
  /\ UNCHANGED <<seen, pre, calls>>
  /\ BuilderFrame

\* for _, statement := range statements { tx.Exec(statement) ... }
ExecList(b, stmts, after, out) ==
  ExecInTx(b, stmts[idx],
           IF idx < Len(stmts) THEN pc ELSE after,
           IF idx < Len(stmts) THEN idx + 1 ELSE 1,
           out, "failed to execute statement")

\* a step of the builder that is no statement of the list and may fail:
\* on failure tx.Rollback() and the error is returned.
StepInTx(b, okPc, okIdx, out, msg, counted) ==
  /\ \E ok \in BOOLEAN :
       IF ok
       THEN /\ pc' = okPc
            /\ idx' = okIdx
            /\ execs' = IF counted THEN execs + 1 ELSE execs
            /\ UNCHANGED <<db, txVars, ret, begins>>
       ELSE /\ db' = Rollback(db, tx)
            /\ CloseTx
            /\ Returned(b, "error", NewError(msg, ""), "", Dirty)
            /\ pc' = out
            /\ idx' = 1
            /\ execs' = 0
            /\ begins' = 0
  /\ UNCHANGED <<seen, pre, calls>>
  /\ BuilderFrame

(***************************************************************************)
(* main: runReports and the loop around it.                                *)
(***************************************************************************)
CycleEnd == IF runOnce THEN "idle" ELSE "wait"

\* Mutant of AfterCovid: runReports returns on the covid builder's error.
AfterCovidStopOnError(err) == IF err # Nil THEN CycleEnd ELSE "dis_entry"

\* runReports: the disadvantaged builder is called whatever the covid
\* builder returned.
AfterCovid(err) == "dis_entry"
AfterDisadvantaged(err) == CycleEnd

\* runReports(): CreateCovidCategoryReport(db) is entered.
EnterCovid ==
  /\ cycles < MaxCycles
  /\ cycles' = cycles + 1
  /\ pc' = "covid_dep"
  /\ idx' = 1
  /\ calls' = [calls EXCEPT !["covid"] = @ + 1]
  /\ pre' = ReportPart(db)
  /\ begins' = 0
  /\ execs' = 0
  /\ seen' = [t \in SourceSet |-> Unseen]
  /\ Returned("covid", "running", Nil, "", FALSE)

\* if runOnce { runReports() ...
RunOnceStart ==
  /\ pc = "run_once"
  /\ EnterCovid
  /\ UNCHANGED <<db, collectorVars, ctxCancelled, envVars, tickPending,
                 ticksTaken, txVars, gateVars>>

\* Mutant of LoopTop: runReports() is called without looking at ctx.Done().
LoopTopWithoutCtxCheck ==
  /\ pc = "loop_top"
  /\ EnterCovid
  /\ UNCHANGED <<db, collectorVars, ctxCancelled, envVars, tickPending,
                 ticksTaken, txVars, gateVars>>

\* for { select { case <-ctx.Done(): return; default: }; runReports() ...
LoopTop ==
  /\ pc = "loop_top"
  /\ IF ctxCancelled
     THEN /\ pc' = "exit"
          /\ UNCHANGED <<idx, cycles, ret, seen, histVars>>
     ELSE EnterCovid
  /\ UNCHANGED <<db, collectorVars, ctxCancelled, envVars, tickPending,
                 ticksTaken, txVars, gateVars>>

\* select { case <-ctx.Done(): return ... }
WaitCancelled ==
  /\ pc = "wait"
  /\ ctxCancelled
  /\ pc' = "exit"
  /\ UNCHANGED <<db, collectorVars, ctxCancelled, envVars, idx, loopVars,
                 txVars, gateVars, ret, seen, histVars>>

\* Mutant of WaitTick: the loop goes on without receiving from ticker.C.
WaitWithoutTick ==
  /\ pc = "wait"
  /\ pc' = "loop_top"
  /\ UNCHANGED <<db, collectorVars, ctxCancelled, envVars, idx, loopVars,
                 txVars, gateVars, ret, seen, histVars>>

\* select { ... case <-ticker.C: }
WaitTick ==
  /\ pc = "wait"
  /\ tickPending
  /\ tickPending' = FALSE
  /\ ticksTaken' = ticksTaken + 1
  /\ pc' = "loop_top"
  /\ UNCHANGED <<db, collectorVars, ctxCancelled, envVars, idx, cycles,
                 txVars, gateVars, ret, seen, histVars>>

\* the 24-hour ticker of the loop sends a tick (its channel holds one).
Tick24h ==
  /\ ~runOnce
  /\ pc \notin GatePcs \cup {"exit", "fatal"}
  /\ ~tickPending
  /\ cycles < MaxCycles
  /\ tickPending' = TRUE
  /\ UNCHANGED <<db, collectorVars, ctxCancelled, envVars, pc, idx, cycles,
                 ticksTaken, txVars, gateVars, ret, seen,
                 histVars>>

(***************************************************************************)
(* CreateCovidCategoryReport                                               *)
(***************************************************************************)
\* Mutant of CovidDeps: ccvi is not checked.
CovidDepsWithoutCcvi == <<covidTable, taxiTripsTable>>

CovidDeps == <<covidTable, taxiTripsTable, ccviTable>>

CovidDep ==
  /\ pc = "covid_dep"
  /\ BuilderDep("covid", CovidDeps, "covid_begin",
                AfterCovid(ensureTableReady(db, CovidDeps[idx])))

CovidBegin ==
  /\ pc = "covid_begin"
  /\ BuilderBegin("covid", "covid_stmt", AfterCovid(DbErr),
                  "failed to start covid category report transaction")

CovidStmt ==
  /\ pc = "covid_stmt"
  /\ ExecList("covid", CovidStatements, "covid_commit", AfterCovid(DbErr))

\* if err := tx.Commit(); err != nil { return fmt.Errorf(...) }; return nil
CovidCommit ==
  /\ pc = "covid_commit"
  /\ \E ok \in BOOLEAN :
       IF ok
       THEN /\ db' = Commit(db, tx)
            /\ Returned("covid", "nil", Nil, "", Dirty)
            /\ pc' = AfterCovid(Nil)
       ELSE /\ db' = db
            /\ Returned("covid", "error",
                        Wrap("failed to commit covid category report transaction",
                             DbErr), "", Dirty)
            /\ pc' = AfterCovid(DbErr)
  /\ CloseTx
  /\ execs' = 0
  /\ begins' = 0
  /\ UNCHANGED <<idx, seen, pre, calls>>
  /\ BuilderFrame

(***************************************************************************)
(* CreateDisadvantagedReport                                               *)
(***************************************************************************)
DisadvantagedDeps == <<publichealthTable, buildingPermits>>

\* runReports: CreateDisadvantagedReport(db) is entered.
DisadvantagedEntry ==
  /\ pc = "dis_entry"
  /\ pc' = "dis_dep"
  /\ idx' = 1
  /\ calls' = [calls EXCEPT !["disadvantaged"] = @ + 1]
  /\ pre' = ReportPart(db)
  /\ begins' = 0
  /\ execs' = 0
  /\ seen' = [t \in SourceSet |-> Unseen]
  /\ Returned("disadvantaged", "running", Nil, "", FALSE)
  /\ UNCHANGED <<db, txVars>>
  /\ BuilderFrame

DisadvantagedDep ==
  /\ pc = "dis_dep"
  /\ BuilderDep("disadvantaged", DisadvantagedDeps, "dis_begin",
                AfterDisadvantaged(ensureTableReady(db, DisadvantagedDeps[idx])))

DisadvantagedBegin ==
  /\ pc = "dis_begin"
  /\ BuilderBegin("disadvantaged", "dis_postgis", AfterDisadvantaged(DbErr),
                  "failed to start disadvantaged report transaction")

\* if err := ensurePostGISEnabled(tx); err != nil { tx.Rollback(); return err }
DisadvantagedPostGIS ==
  /\ pc = "dis_postgis"
  /\ StepInTx("disadvantaged", "dis_stmt", 1, AfterDisadvantaged(DbErr),
              "postgis extension is not available or could not be enabled",
              TRUE)

DisadvantagedStmt ==
  /\ pc = "dis_stmt"
  /\ ExecList("disadvantaged", DisadvantagedStatements, "dzip_clear",
              AfterDisadvantaged(DbErr))

\* populateDisadvantagedZipCodes: UPDATE ... SET zip_code = ''
DZipClear ==
  /\ pc = "dzip_clear"
  /\ ExecInTx("disadvantaged", ClearZipStmt(disadvantagedTable),
              "dzip_load", 1, AfterDisadvantaged(DbErr),
              "failed to populate disadvantaged zip codes")

\* populateDisadvantagedZipCodes: loadCommunityAreaZipCodes()
DZipLoad ==
  /\ pc = "dzip_load"
  /\ StepInTx("disadvantaged", "dzip_update", 1,
              AfterDisadvantaged(DbErr),
              "failed to populate disadvantaged zip codes", FALSE)

\* populateDisadvantagedZipCodes: UPDATE ... FROM (VALUES ...) AS mapping
DZipUpdate ==
  /\ pc = "dzip_update"
  /\ ExecInTx("disadvantaged", CrosswalkZipStmt(disadvantagedTable),
              "pzip_clear", 1, AfterDisadvantaged(DbErr),
              "failed to populate disadvantaged zip codes")

\* populatePermitZipCodes: UPDATE ... SET zip_code = '', then the branch on
\* useGeocoding (USE_GEOCODING of the environment).
PZipClear ==
  /\ pc = "pzip_clear"
  /\ \E useGeocoding \in BOOLEAN :
       ExecInTx("disadvantaged", ClearZipStmt(disadvantagedPermitsTable),
                IF useGeocoding THEN "pzip_query" ELSE "pzip_load",
                1, AfterDisadvantaged(DbErr), "failed to populate zip codes")

\* populatePermitZipCodes, !useGeocoding: loadCommunityAreaZipCodes()
PZipLoad ==
  /\ pc = "pzip_load"
  /\ StepInTx("disadvantaged", "pzip_update", 1,
              AfterDisadvantaged(DbErr), "failed to populate zip codes", FALSE)

\* populatePermitZipCodes, !useGeocoding: UPDATE ... FROM (VALUES ...)
PZipUpdate ==
  /\ pc = "pzip_update"
  /\ ExecInTx("disadvantaged", CrosswalkZipStmt(disadvantagedPermitsTable),
              "dis_commit", 1, AfterDisadvantaged(DbErr),
              "failed to populate zip codes")

\* populatePermitZipCodes, useGeocoding: tx.Query of the permits, rows.Scan,
\* tx.Prepare of the UPDATE.
PZipQuery ==
  /\ pc = "pzip_query"
  /\ StepInTx("disadvantaged",
              IF tx[disadvantagedPermitsTable].rows > 0
              THEN "pzip_geo" ELSE "dis_commit", 1,
              AfterDisadvantaged(DbErr), "failed to populate zip codes", TRUE)

\* for _, permit := range permits: a failed reverse geocoding and a failed
\* UPDATE are printed and the loop continues; a failed statement leaves the
\* transaction aborted.
PZipGeo ==
  /\ pc = "pzip_geo"
  /\ \E outcome \in {"geocoding failed", "updated", "update failed"} :
       /\ outcome = "updated" => ~txAborted
       /\ txAborted' = (txAborted \/ outcome = "update failed")
       /\ execs' = IF outcome = "geocoding failed" THEN execs ELSE execs + 1
  /\ IF idx < tx[disadvantagedPermitsTable].rows
     THEN /\ idx' = idx + 1
          /\ UNCHANGED pc
     ELSE /\ idx' = 1
          /\ pc' = "dis_commit"
  /\ UNCHANGED <<db, tx, txOpen, txBuilt, txLocks, ret, seen,
                 pre, calls, begins>>
  /\ BuilderFrame

\* What tx.Commit() of an aborted transaction returns.
FailedTxErr ==
  NewError("pq: Could not complete operation in a failed transaction", "")

\* Mutant of DisadvantagedCommit: the commit of a transaction of which a
\* statement failed keeps the writes of the statements that succeeded.
DisadvantagedCommitIgnoringAbort ==
  /\ pc = "dis_commit"
  /\ \E ok \in BOOLEAN :
       IF ok
       THEN /\ db' = Commit(db, tx)
            /\ Returned("disadvantaged", "nil", Nil, "", Dirty)
            /\ pc' = AfterDisadvantaged(Nil)
       ELSE /\ db' = Rollback(db, tx)
            /\ Returned("disadvantaged", "error",
                        Wrap("failed to commit disadvantaged report transaction",
                             DbErr), "", Dirty)
            /\ pc' = AfterDisadvantaged(DbErr)
  /\ CloseTx
  /\ execs' = 0
  /\ begins' = 0
  /\ UNCHANGED <<idx, seen, pre, calls>>
  /\ BuilderFrame

\* if err := tx.Commit(); err != nil { tx.Rollback(); return ... }; return nil
\* Commit of an aborted transaction rolls it back and returns an error.
DisadvantagedCommit ==
  /\ pc = "dis_commit"
  /\ \E ok \in BOOLEAN :
       IF ok /\ ~txAborted
       THEN /\ db' = Commit(db, tx)
            /\ Returned("disadvantaged", "nil", Nil, "", Dirty)
            /\ pc' = AfterDisadvantaged(Nil)
       ELSE /\ db' = Rollback(db, tx)
            /\ Returned("disadvantaged", "error",
                        Wrap("failed to commit disadvantaged report transaction",
                             IF txAborted THEN FailedTxErr ELSE DbErr),
                        "", Dirty)
            /\ pc' = AfterDisadvantaged(DbErr)
  /\ CloseTx
  /\ execs' = 0
  /\ begins' = 0
  /\ UNCHANGED <<idx, seen, pre, calls>>
  /\ BuilderFrame

\* The reports process has started and has called no builder yet.
Started ==
  /\ csteps = 0
  /\ ctxCancelled = FALSE
  /\ idx = 1
  /\ tickPending = FALSE
  /\ cycles = 0
  /\ ticksTaken = 0
  /\ txOpen = FALSE
  /\ txAborted = FALSE
  /\ txBuilt = {}
  /\ txLocks = {}
  /\ lastErr = Nil
  /\ gateErr = Nil
  /\ ret = NotCalled
  /\ seen = [t \in SourceSet |-> Unseen]
  /\ pollCancelled = FALSE
  /\ calls = [b \in Builders |-> 0]
  /\ begins = 0
  /\ execs = 0
  /\ loaded = NotLoaded
  /\ ident = NotQuoted

(***************************************************************************)
(* Specification.  The database the reports process finds holds no report  *)
(* table and the source tables of an earlier run of the collectors, those  *)
(* of collecting excepted: their collectors have created them again and    *)
(* have inserted no record yet.                                            *)
(***************************************************************************)
InitWith(collecting) ==
  /\ db = [t \in AllTables |->
             IF t \in collecting THEN SourceValue(0)
             ELSE IF t \in SourceSet THEN SourceValue(MaxRows) ELSE Absent]
  /\ cpc = [t \in SourceSet |-> IF t \in collecting THEN "insert" ELSE "idle"]
  /\ runOnce \in BOOLEAN
  /\ crosswalkFile = SomeCrosswalk
  /\ pc = "gate_top"
  /\ pre = NoTx
  /\ tx = NoTx
  /\ Started

Init == InitWith({})

Gate == GateTop \/ GatePoll \/ GateCancelled \/ GateTick

Main == RunOnceStart \/ LoopTop \/ WaitCancelled \/ WaitTick

CovidBuilder == CovidDep \/ CovidBegin \/ CovidStmt \/ CovidCommit

DisadvantagedBuilder ==
  \/ DisadvantagedEntry \/ DisadvantagedDep \/ DisadvantagedBegin
  \/ DisadvantagedPostGIS \/ DisadvantagedStmt
  \/ DZipClear \/ DZipLoad \/ DZipUpdate
  \/ PZipClear \/ PZipLoad \/ PZipUpdate \/ PZipQuery \/ PZipGeo
  \/ DisadvantagedCommit

Orchestrator == Gate \/ Main \/ CovidBuilder \/ DisadvantagedBuilder

Next == CollectorLaunch \/ Collector \/ Cancel \/ Tick24h \/ Orchestrator

\* The pipeline: the reports process started after a finished collection.
Spec == Init /\ [][Next]_vars

\* The main goroutine of the reports process keeps being scheduled.
FairSpec == Spec /\ WF_vars(Orchestrator)

(***************************************************************************)
(* The readiness gate alone, started while up to MaxCollecting collectors  *)
(* are still filling their tables.                                         *)
(***************************************************************************)
MaxCollecting == 2

GateInit ==
  \E collecting \in SUBSET SourceSet :
    /\ Cardinality(collecting) <= MaxCollecting
    /\ InitWith(collecting)

GateNext == CollectorLaunch \/ Collector \/ Cancel \/ Gate

GateSpec == GateInit /\ [][GateNext]_vars /\ WF_vars(Gate)

(***************************************************************************)
(* The builders at row level.  Under RebuildSpec a table of db is a        *)
(* relation: whether the table exists, and its set of rows, each row a     *)
(* record of the columns the builders read or write.  The statements of a  *)
(* builder run in one transaction, so a call that returns nil takes the    *)
(* report tables from their committed contents to the contents its         *)
(* statement list computes from the source tables; where SQL leaves the    *)
(* result of a statement open the engine's choice is a nondeterministic    *)
(* one.  Timestamps are days counted from Monday 3 January 2022, and       *)
(* USE_GEOCODING is not set.                                               *)
(***************************************************************************)
MaxAreas == 6   \* rows of public_health at most
MaxLevel == 1   \* below_poverty_level and unemployment are in 0..MaxLevel
MaxCalls == 2   \* calls of the builder in one behaviour
TopLimit == 5   \* LIMIT 5 of the two top_5 subqueries

Relation(rows) == [exists |-> TRUE, rows |-> rows]
NoRelation == [exists |-> FALSE, rows |-> {}]
Null == "NULL"

\* A number column that holds NULL in a row is a field the record lacks.
IsNull(r, col) == col \notin DOMAIN r

\* ensureTableReady on a relation: the table exists and COUNT finds a row.
RelationReady(T) == T.exists /\ Cardinality(T.rows) > 0

Min(a, b) == IF a < b THEN a ELSE b
MaxOf(S) == CHOOSE x \in S : \A y \in S : y <= x

RECURSIVE GCD(_, _)
GCD(a, b) == IF b = 0 THEN a ELSE GCD(b, a % b)

\* Mutant of Avg: SUM of the counts.
SumOfCounts(total, groups) == <<total, 1>>

\* AVG over groups whose counts add up to total: the exact quotient.
Avg(total, groups) ==
  LET g == GCD(total, groups) IN <<total \div g, groups \div g>>

\* ORDER BY col DESC does not put row q before row r: NULL sorts as larger
\* than every value, so DESC is NULLS FIRST.
DescAbove(r, q, col) ==
  IsNull(r, col) \/ (~IsNull(q, col) /\ r[col] >= q[col])

\* Mutant of OrderByDescLimit: LIMIT n without the ORDER BY.
LimitWithoutOrderBy(rows, col, n) ==
  { {r.community_area : r \in S} :
      S \in {S \in SUBSET rows : Cardinality(S) = Min(n, Cardinality(rows))} }

\* SELECT "community_area" FROM rows ORDER BY col DESC LIMIT n: every result
\* the engine may return; rows that tie on col come in any order.
OrderByDescLimit(rows, col, n) ==
  { {r.community_area : r \in S} :
      S \in {S \in SUBSET rows :
               /\ Cardinality(S) = Min(n, Cardinality(rows))
               /\ \A r \in S : \A q \in rows \ S : DescAbove(r, q, col)} }

\* src/data/community_area_to_zip_code.csv as loadCommunityAreaZipCodes
\* returns it: a map from community area to ZIP code.
communityZipMap == [a \in 1..MaxAreas |-> 60600 + a]

\* UPDATE t SET zip_code = '' followed by UPDATE t SET zip_code =
\* mapping.zip_code FROM (VALUES ...) mapping WHERE the community areas match.
CrosswalkZip(area) ==
  IF area \in DOMAIN communityZipMap THEN communityZipMap[area] ELSE ""

\* disadvantaged: public_health with zip_code and the three flags, given the
\* community areas the two top_5 subqueries returned.
DisadvantagedRows(publicHealth, poverty, unemployment) ==
  { r @@ [zip_code |-> CrosswalkZip(r.community_area),
          top_5_poverty |-> r.community_area \in poverty,
          top_5_unemployment |-> r.community_area \in unemployment,
          disadvantaged |-> \/ r.community_area \in poverty
                            \/ r.community_area \in unemployment]
    : r \in publicHealth }

\* Mutant of FlagOfArea: the UPDATE without its WHERE.
FlagOfAnyArea(d, area, col) == \E r \in d : r[col]

\* UPDATE dp SET col = d.col FROM disadvantaged d WHERE dp."community_area"
\* = d."community_area": community_area is the key of d, and a permit
\* without a match keeps the column's DEFAULT FALSE.
FlagOfArea(d, area, col) == \E r \in d : r.community_area = area /\ r[col]

\* disadvantaged_permits: building_permits with point, zip_code, the two
\* top_5 flags and disadvantaged renamed to waived_fee.
DisadvantagedPermitRows(permits, d) ==
  { p @@ [point |-> p.located,
          zip_code |-> CrosswalkZip(p.community_area),
          top_5_poverty |-> FlagOfArea(d, p.community_area, "top_5_poverty"),
          top_5_unemployment |->
            FlagOfArea(d, p.community_area, "top_5_unemployment"),
          waived_fee |-> FlagOfArea(d, p.community_area, "disadvantaged")]
    : p \in permits }

\* DATE_TRUNC('week', ts): the Monday of the week of day d.
WeekTrunc(d) == d - (d % 7)

\* Mutant of WeekStart: the Sunday of the week from Sunday to Saturday of d.
SundayOfWeek(d) == d - ((d + 1) % 7)

\* (DATE_TRUNC('week', ts) - INTERVAL '1 day')::date
WeekStart(d) == WeekTrunc(d) - 1

\* DATE_TRUNC('month', ts)::date for the days of January to March 2022.
MonthTrunc(d) == IF d < 29 THEN 0 - 2 ELSE IF d < 57 THEN 29 ELSE 57

\* month_start + INTERVAL '1 month'
NextMonth(m) == IF m < 29 THEN 29 ELSE IF m < 57 THEN 57 ELSE 88

AirportZips == {"60666", "60656", "60665", "60638"}

\* The CASE expression of covid_cat.
CovidCat(rate) ==
  CASE rate < 50 -> "low"
    [] rate >= 50 /\ rate < 100 -> "medium"
    [] rate >= 100 -> "high"

\* covid_rep_cats: covid with covid_cat; on a NULL case_rate_weekly no WHEN
\* of the CASE is true and the column is set to NULL.
CovidRepCatRows(covid) ==
  { c @@ [covid_cat |-> IF IsNull(c, "case_rate_weekly") THEN Null
                        ELSE CovidCat(c.case_rate_weekly)]
    : c \in covid }

\* UPDATE t SET x_covid_cat = c.covid_cat FROM covid_rep_cats c WHERE
\* t.x_zip_code = c.zip_code AND t.week_start = c.week_start: the values the
\* engine may give a trip of that ZIP code and week; with several matching
\* rows of c it uses one of them.
JoinedCats(repCats, zip, week) ==
  LET M == {c \in repCats : c.zip_code = zip /\ c.week_start = week}
  IN IF M = {} THEN {Null} ELSE {c.covid_cat : c \in M}

\* The outcomes of that UPDATE over the trips: trip_id -> category.
CatChoices(trips, repCats, zipcol) ==
  { f \in [{t.trip_id : t \in trips} -> {"low", "medium", "high", Null}] :
      \A t \in trips :
        f[t.trip_id] \in JoinedCats(repCats, t[zipcol],
                                    WeekStart(t.trip_start_timestamp)) }

\* zip IN (...) is true: of a NULL zip it is not.
InAirportZips(zip) == zip # Null /\ zip \in AirportZips

\* Mutant of AirportFlags: the columns added without DEFAULT false, NULL in
\* the rows the UPDATEs leave out.
AirportFlagsWithoutDefault(t) ==
  (IF InAirportZips(t.dropoff_zip_code)
   THEN [airport_dropoff |-> TRUE] ELSE <<>>)
  @@ (IF InAirportZips(t.pickup_zip_code)
      THEN [airport_pickup |-> TRUE] ELSE <<>>)

\* ADD COLUMN airport_dropoff, airport_pickup BOOLEAN DEFAULT false, and
\* UPDATE ... SET flag = true WHERE zip IN (...): the two flags of trip t.
AirportFlags(t) ==
  [airport_dropoff |-> InAirportZips(t.dropoff_zip_code),
   airport_pickup |-> InAirportZips(t.pickup_zip_code)]

\* covid_alerts: taxi_trips with the airport flags, the day, week and month
\* buckets and the joined categories.
CovidAlertRows(trips, pickupCat, dropoffCat) ==
  { t @@ AirportFlags(t) @@
         [day |-> t.trip_start_timestamp,
          week_start |-> WeekStart(t.trip_start_timestamp),
          month_start |-> MonthTrunc(t.trip_start_timestamp),
          pickup_covid_cat |-> pickupCat[t.trip_id],
          dropoff_covid_cat |-> dropoffCat[t.trip_id]]
    : t \in trips }

\* SELECT week_start, zipcol, COUNT(*) FROM covid_alerts GROUP BY both.
WeeklyCountRows(alerts, zipcol, countcol) ==
  { (zipcol :> k[2]) @@ (countcol :> Cardinality(
        {t \in alerts : t.week_start = k[1] /\ t[zipcol] = k[2]}))
      @@ [week_start |-> k[1]]
    : k \in {<<t.week_start, t[zipcol]>> : t \in alerts} }

\* COUNT of the trips of a ZIP code and week that pass the airport flag; a
\* row of covid_rep_cats without such trips keeps DEFAULT 0.
TripCount(alerts, zipcol, zip, week, flag) ==
  Cardinality({t \in alerts :
                 /\ t[zipcol] = zip /\ t.week_start = week
                 /\ ~IsNull(t, flag) /\ t[flag]})

\* req_airport_trips: covid_rep_cats with the trips to and from the airports.
ReqAirportTripRows(repCats, alerts) ==
  { c @@ [trips_to_airport |->
            TripCount(alerts, "pickup_zip_code", c.zip_code, c.week_start,
                      "airport_dropoff"),
          trips_from_airport |->
            TripCount(alerts, "dropoff_zip_code", c.zip_code, c.week_start,
                      "airport_pickup")]
    : c \in repCats }

\* The weekly count the UPDATE joins to a ZIP code and week, DEFAULT 0.
WeeklyCount(counts, zipcol, countcol, zip, week) ==
  LET M == {w \in counts : w[zipcol] = zip /\ w.week_start = week}
  IN IF M = {} THEN 0 ELSE (CHOOSE w \in M : TRUE)[countcol]

\* covid_alerts_residents: covid_rep_cats with the weekly counts.
CovidAlertsResidentRows(repCats, pickups, dropoffs) ==
  { c @@ [weekly_dropoffs |->
            WeeklyCount(dropoffs, "dropoff_zip_code", "weekly_dropoffs",
                        c.zip_code, c.week_start),
          weekly_pickups |->
            WeeklyCount(pickups, "pickup_zip_code", "weekly_pickups",
                        c.zip_code, c.week_start)]
    : c \in repCats }

\* Mutant of ForecastRows: the count of a ZIP code averaged over the buckets
\* of all ZIP codes, those without a trip of it counted as 0.
ForecastRowsOverAllBuckets(alerts, bucket, next) ==
  { (bucket :> next) @@
    [zip_code |-> z,
     trips |-> Avg(Cardinality({t \in alerts : t.dropoff_zip_code = z}),
                   Cardinality({t[bucket] : t \in alerts}))]
    : z \in {t.dropoff_zip_code : t \in alerts} }

\* daily_trips, weekly_trips, monthly_trips: for every dropoff ZIP code the
\* average count of its buckets, dated at the bucket after the latest one.
ForecastRows(alerts, bucket, next) ==
  { (bucket :> next) @@
    [zip_code |-> z,
     trips |-> Avg(Cardinality({t \in alerts : t.dropoff_zip_code = z}),
                   Cardinality({t[bucket] : t \in
                                  {u \in alerts : u.dropoff_zip_code = z}}))]
    : z \in {t.dropoff_zip_code : t \in alerts} }

\* Mutant of SumWeeklyTrips: UNION in place of UNION ALL, which keeps one of
\* two equal rows of weekly_trips.
SumWeeklyTripsUnion(alerts, zip, week) ==
  LET p == Cardinality({t \in alerts : /\ t.week_start = week
                                       /\ t.pickup_zip_code = zip})
      d == Cardinality({t \in alerts : /\ t.week_start = week
                                       /\ t.dropoff_zip_code = zip})
  IN IF p = d THEN p ELSE p + d

\* SUM(wt.trips) over the rows of weekly_trips of a ZIP code and week: the
\* count by pickup ZIP code and, UNION ALL, the count by dropoff ZIP code.
SumWeeklyTrips(alerts, zip, week) ==
  Cardinality({t \in alerts : /\ t.week_start = week
                              /\ t.pickup_zip_code = zip})
  + Cardinality({t \in alerts : /\ t.week_start = week
                                /\ t.dropoff_zip_code = zip})

\* ccvi_high_trips: the rows of ccvi of category HIGH and type ZIP, by week,
\* with the pickups and dropoffs of that ZIP code in that week.
CcviTripRows(ccvi, alerts) ==
  { k[1] @@ [week_start |-> k[2],
             weekly_trips |->
               SumWeeklyTrips(alerts, k[1].community_area_or_zip, k[2])]
    : k \in { p \in {c \in ccvi : /\ c.ccvi_category = "HIGH"
                                   /\ c.geography_type = "ZIP"}
                     \X {t.week_start : t \in alerts} :
                \E t \in alerts :
                  /\ t.week_start = p[2]
                  /\ \/ t.pickup_zip_code = p[1].community_area_or_zip
                     \/ t.dropoff_zip_code = p[1].community_area_or_zip } }

\* The report tables a call of CreateCovidCategoryReport commits, given the
\* outcomes of its two category joins; the two _sorted tables are renamed
\* away before the commit.
CovidReportRelations(covid, trips, ccvi, pickupCat, dropoffCat) ==
  LET repCats == CovidRepCatRows(covid)
      alerts == CovidAlertRows(trips, pickupCat, dropoffCat)
      pickups == WeeklyCountRows(alerts, "pickup_zip_code", "weekly_pickups")
      dropoffs ==
        WeeklyCountRows(alerts, "dropoff_zip_code", "weekly_dropoffs")
  IN (covidRepCatsTable :> Relation(repCats))
     @@ (covidAlertsTable :> Relation(alerts))
     @@ (reqAirportTripsTable :> Relation(ReqAirportTripRows(repCats, alerts)))
     @@ (weeklyPickupTable :> Relation(pickups))
     @@ (weeklyDropoffTable :> Relation(dropoffs))
     @@ (covidAlertsResidents :>
           Relation(CovidAlertsResidentRows(repCats, pickups, dropoffs)))
     @@ (dailyTripsTable :>
           Relation(ForecastRows(alerts, "day",
                                 MaxOf({t.day : t \in alerts}) + 1)))
     @@ (weeklyTripsTable :>
           Relation(ForecastRows(alerts, "week_start",
                                 MaxOf({t.week_start : t \in alerts}) + 7)))
     @@ (CCVITable :> Relation(CcviTripRows(ccvi, alerts)))
     @@ (monthlyTripsTable :>
           Relation(ForecastRows(alerts, "month_start",
                      NextMonth(MaxOf({t.month_start : t \in alerts})))))
     @@ [t \in {reqAirportTripsSorted, CCVISorted} |-> NoRelation]

\* The report tables a call of CreateDisadvantagedReport commits, given the
\* results of its two top_5 subqueries.
DisadvantagedReportRelations(publicHealth, permits, poverty, unemployment) ==
  LET d == DisadvantagedRows(publicHealth, poverty, unemployment)
  IN (disadvantagedTable :> Relation(d))
     @@ (disadvantagedPermitsTable :>
           Relation(DisadvantagedPermitRows(permits, d)))

\* A call of builder b that returned nil and committed the relations R.
RebuildCommitted(b, R) ==
  /\ calls[b] < MaxCalls
  /\ db' = [t \in AllTables |-> IF t \in DOMAIN R THEN R[t] ELSE db[t]]
  /\ pre' = ReportPart(db)
  /\ calls' = [calls EXCEPT ![b] = @ + 1]
  /\ Returned(b, "nil", Nil, "", FALSE)
  /\ UNCHANGED <<collectorVars, ctxCancelled, envVars, pc, idx, loopVars,
                 txVars, gateVars, seen, begins, execs>>

\* CreateCovidCategoryReport(db), from its call to its return of nil.
RebuildCovid ==
  /\ pc = "covid_dep"
  /\ \A i \in 1..Len(CovidDeps) : RelationReady(db[CovidDeps[i]])
  /\ LET repCats == CovidRepCatRows(db[covidTable].rows)
         trips == db[taxiTripsTable].rows
     IN \E pickupCat \in CatChoices(trips, repCats, "pickup_zip_code"),
           dropoffCat \in CatChoices(trips, repCats, "dropoff_zip_code") :
          RebuildCommitted("covid",
            CovidReportRelations(db[covidTable].rows, trips,
                                 db[ccviTable].rows, pickupCat, dropoffCat))

\* CreateDisadvantagedReport(db), from its call to its return of nil.
RebuildDisadvantaged ==
  /\ pc = "dis_entry"
  /\ \A i \in 1..Len(DisadvantagedDeps) :
       RelationReady(db[DisadvantagedDeps[i]])
  /\ LET publicHealth == db[publichealthTable].rows
     IN \E poverty \in OrderByDescLimit(publicHealth, "below_poverty_level",
                                        TopLimit),
           unemployment \in OrderByDescLimit(publicHealth, "unemployment",
                                             TopLimit) :
          RebuildCommitted("disadvantaged",
            DisadvantagedReportRelations(publicHealth,
                                         db[buildingPermits].rows,
                                         poverty, unemployment))

(***************************************************************************)
(* The source contents of RebuildSpec.                                     *)
(***************************************************************************)
Levels == 0..MaxLevel
Zips == {"60666", "60601"}
Rates == {49, 50, 100}
TripDays == {7, 29}

\* public_health: community_area is the primary key.  below_poverty_level
\* is any level in every community area; unemployment is MaxLevel in the
\* first k community areas and 0 in the others.
PublicHealthContents ==
  UNION { { { [community_area |-> a, below_poverty_level |-> f[a],
               unemployment |-> IF a <= k THEN MaxLevel ELSE 0] : a \in 1..n }
            : f \in [1..n -> Levels], k \in 0..n }
          : n \in TopLimit..MaxAreas }

\* building_permits: id is the primary key; a permit of the first and one of
\* the last community area, and one of no community area.
SomePermits ==
  { [id |-> 1, community_area |-> 1, located |-> TRUE],
    [id |-> 2, community_area |-> MaxAreas, located |-> FALSE],
    [id |-> 3, community_area |-> 0, located |-> TRUE] }

\* covid: zip_code, week_start and week_end are unique together; the week
\* that starts on Sunday 9 January 2022.
CovidKeys == Zips \X {6} \X {12, 19}

CovidContents ==
  UNION { { { [zip_code |-> k[1], week_start |-> k[2], week_end |-> k[3],
               case_rate_weekly |-> f[k]] : k \in K }
            : f \in [K -> Rates] }
          : K \in {K \in SUBSET CovidKeys :
                     K # {} /\ Cardinality(K) <= MaxRows} }

\* taxi_trips: trip_id is unique.
TaxiTripsContents ==
  UNION { { { [trip_id |-> i, trip_start_timestamp |-> f[i][1],
               pickup_zip_code |-> f[i][2], dropoff_zip_code |-> f[i][3]]
              : i \in 1..n }
            : f \in [1..n -> TripDays \X Zips \X Zips] }
          : n \in 1..MaxRows }

\* ccvi: id is the primary key.
SomeCcvi ==
  { [id |-> 1, geography_type |-> "ZIP", community_area_or_zip |-> "60666",
     ccvi_category |-> "HIGH"],
    [id |-> 2, geography_type |-> "ZIP", community_area_or_zip |-> "60601",
     ccvi_category |-> "LOW"],
    [id |-> 3, geography_type |-> "CA", community_area_or_zip |-> "32",
     ccvi_category |-> "HIGH"] }

\* A database of finished collections and no report table.
Collected(publicHealth, permits, covid, trips, ccvi) ==
  (publichealthTable :> Relation(publicHealth))
  @@ (buildingPermits :> Relation(permits))
  @@ (covidTable :> Relation(covid))
  @@ (taxiTripsTable :> Relation(trips))
  @@ (ccviTable :> Relation(ccvi))
  @@ [t \in ReportSet |-> NoRelation]

\* The builder under test is about to be called for the first time; the
\* sources it reads hold any of the contents above, the other sources one.
RebuildInit ==
  /\ \/ /\ pc = "dis_entry"
        /\ \E publicHealth \in PublicHealthContents :
             db = Collected(publicHealth, SomePermits,
                            CHOOSE c \in CovidContents : TRUE,
                            CHOOSE t \in TaxiTripsContents : TRUE, SomeCcvi)
     \/ /\ pc = "covid_dep"
        /\ \E covid \in CovidContents, trips \in TaxiTripsContents :
             db = Collected(CHOOSE p \in PublicHealthContents : TRUE,
                            SomePermits, covid, trips, SomeCcvi)
  /\ cpc = [t \in SourceSet |-> "idle"]
  /\ runOnce = FALSE
  /\ crosswalkFile = SomeCrosswalk
  /\ pre = [t \in ReportSet |-> NoRelation]
  /\ tx = NoTx
  /\ Started

RebuildNext == RebuildCovid \/ RebuildDisadvantaged

RebuildSpec == RebuildInit /\ [][RebuildNext]_vars

(***************************************************************************)
(* The source contents of ContentSpec: what the schemas of the source      *)
(* tables admit, NULL and negative numbers, NULL and empty ZIP codes       *)
(* included, whichever collector wrote the rows.                           *)
(***************************************************************************)
MaxTrips == 3   \* rows of taxi_trips at most

\* case_rate_weekly FLOAT8: the values at and next to the bounds of the CASE.
AnyRates == {0 - 1, 0, 49, 50, 99, 100}

\* covid with any rate or NULL in every row.
CaseRateContents ==
  UNION { { { IF k \in N
              THEN [zip_code |-> k[1], week_start |-> k[2], week_end |-> k[3]]
              ELSE [zip_code |-> k[1], week_start |-> k[2], week_end |-> k[3],
                    case_rate_weekly |-> f[k]] : k \in K }
            : f \in [K -> AnyRates], N \in SUBSET K }
          : K \in {K \in SUBSET CovidKeys :
                     K # {} /\ Cardinality(K) <= MaxRows} }

\* public_health with any level or NULL in one of the two columns, FLOAT8
\* without NOT NULL; the other column is MaxLevel in the first TopLimit
\* community areas and 0 in the others.
NullableHealthContents ==
  UNION { { { (col :> f[a]) @@
              (other :> IF a <= TopLimit THEN MaxLevel ELSE 0) @@
              [community_area |-> a] : a \in 1..n \ N }
            \cup
            { (other :> IF a <= TopLimit THEN MaxLevel ELSE 0) @@
              [community_area |-> a] : a \in N }
            : f \in [1..n -> Levels], N \in SUBSET (1..n) }
          : n \in TopLimit..MaxAreas,
            <<col, other>> \in {<<"below_poverty_level", "unemployment">>,
                                <<"unemployment", "below_poverty_level">>} }

\* Trip days: Sunday 9 and Monday 10 January, Tuesday 1 February 2022.
ContentDays == {6, 7, 29}

\* pickup_zip_code and dropoff_zip_code VARCHAR(9) without NOT NULL: two ZIP
\* codes, the empty string and NULL.
AnyZips == Zips \cup {"", Null}

\* taxi_trips of up to MaxTrips trips, on any of the days; fewer trips than
\* MaxTrips have any ZIP code, MaxTrips trips one of Zips.
AnyTripsContents ==
  UNION { { { [trip_id |-> i, trip_start_timestamp |-> f[i][1],
               pickup_zip_code |-> f[i][2], dropoff_zip_code |-> f[i][3]]
              : i \in 1..n }
            : f \in [1..n -> ContentDays
                             \X (IF n < MaxTrips THEN AnyZips ELSE Zips)
                             \X (IF n < MaxTrips THEN AnyZips ELSE Zips)] }
          : n \in 1..MaxTrips }

\* The builder under test is about to be called for the first time.
ContentInit ==
  /\ \/ /\ pc = "dis_entry"
        /\ \E publicHealth \in NullableHealthContents :
             db = Collected(publicHealth, SomePermits,
                            CHOOSE c \in CovidContents : TRUE,
                            CHOOSE t \in TaxiTripsContents : TRUE, SomeCcvi)
     \/ /\ pc = "covid_dep"
        /\ \E covid \in CaseRateContents :
             db = Collected(CHOOSE p \in PublicHealthContents : TRUE,
                            SomePermits, covid,
                            CHOOSE t \in TaxiTripsContents : TRUE, SomeCcvi)
     \/ /\ pc = "covid_dep"
        /\ \E trips \in AnyTripsContents :
             db = Collected(CHOOSE p \in PublicHealthContents : TRUE,
                            SomePermits, CHOOSE c \in CovidContents : TRUE,
                            trips, SomeCcvi)
  /\ cpc = [t \in SourceSet |-> "idle"]
  /\ runOnce = FALSE
  /\ crosswalkFile = SomeCrosswalk
  /\ pre = [t \in ReportSet |-> NoRelation]
  /\ tx = NoTx
  /\ Started

ContentSpec == ContentInit /\ [][RebuildNext]_vars

(***************************************************************************)
(* CreateDisadvantagedReport statement by statement at row level: the      *)
(* statements that write the table disadvantaged, in the transaction of    *)
(* the call.  tx is what the transaction sees of the report tables, db     *)
(* what is committed.  The statements on disadvantaged_permits read        *)
(* disadvantaged and do not write it.                                      *)
(***************************************************************************)
\* The outcomes of statement i on the rows d of disadvantaged.
FlagStatement(i, d, publicHealth) ==
  CASE i = 1 -> {NoRelation}
    [] i = 2 -> {Relation(publicHealth)}
    [] i = 3 -> {Relation({r @@ [zip_code |-> ""] : r \in d.rows})}
    [] i = 4 -> {Relation({r @@ [top_5_poverty |-> FALSE,
                                 top_5_unemployment |-> FALSE,
                                 disadvantaged |-> FALSE] : r \in d.rows})}
    [] i = 5 ->
         {Relation({[r EXCEPT !.top_5_poverty = @ \/ r.community_area \in S]
                      : r \in d.rows})
            : S \in OrderByDescLimit(d.rows, "below_poverty_level", TopLimit)}
    [] i = 6 ->
         {Relation({[r EXCEPT !.top_5_unemployment =
                                 @ \/ r.community_area \in S] : r \in d.rows})
            : S \in OrderByDescLimit(d.rows, "unemployment", TopLimit)}
    [] i = 7 ->
         {Relation({[r EXCEPT !.disadvantaged =
                                 r.top_5_poverty \/ r.top_5_unemployment]
                      : r \in d.rows})}
    [] i = 8 ->
         {Relation({[r EXCEPT !.zip_code = CrosswalkZip(r.community_area)]
                      : r \in d.rows})}

FlagStatements == 8

\* Mutant of ExecInTransaction: db.Exec, every statement committed by itself.
ExecAutocommit(d, t) == Commit(d, t)

\* tx.Exec: what is committed after a statement that left the transaction
\* with the report tables t.
ExecInTransaction(d, t) == d

\* db.Begin()
FlagBegin ==
  /\ pc = "flag_begin"
  /\ calls["disadvantaged"] < MaxCalls
  /\ tx' = ReportPart(db)
  /\ txOpen' = TRUE
  /\ idx' = 1
  /\ pc' = "flag_stmt"
  /\ pre' = ReportPart(db)
  /\ Returned("disadvantaged", "running", Nil, "", FALSE)
  /\ UNCHANGED <<db, collectorVars, ctxCancelled, envVars, loopVars,
                 txAborted, txBuilt, txLocks, gateVars, seen, calls, begins,
                 execs>>

\* One turn of the loop over the statements: tx.Exec(statement), and on an
\* error tx.Rollback() and the return of the error.
FlagStmt ==
  /\ pc = "flag_stmt"
  /\ idx <= FlagStatements
  /\ \/ /\ \E d \in FlagStatement(idx, tx[disadvantagedTable],
                                  db[publichealthTable].rows) :
             tx' = [tx EXCEPT ![disadvantagedTable] = d]
        /\ db' = ExecInTransaction(db, tx')
        /\ idx' = idx + 1
        /\ pc' = IF idx = FlagStatements THEN "flag_commit" ELSE "flag_stmt"
        /\ UNCHANGED <<txOpen, ret>>
     \/ /\ db' = Rollback(db, tx)
        /\ tx' = [t \in ReportSet |-> NoRelation]
        /\ txOpen' = FALSE
        /\ idx' = 1
        /\ pc' = "flag_begin"
        /\ Returned("disadvantaged", "error", DbErr, "", FALSE)
  /\ UNCHANGED <<collectorVars, ctxCancelled, envVars, loopVars, txAborted,
                 txBuilt, txLocks, gateVars, seen, histVars>>

\* tx.Commit() and the return of nil.
FlagCommit ==
  /\ pc = "flag_commit"
  /\ db' = Commit(db, tx)
  /\ tx' = [t \in ReportSet |-> NoRelation]
  /\ txOpen' = FALSE
  /\ idx' = 1
  /\ pc' = "flag_begin"
  /\ calls' = [calls EXCEPT !["disadvantaged"] = @ + 1]
  /\ Returned("disadvantaged", "nil", Nil, "", FALSE)
  /\ UNCHANGED <<collectorVars, ctxCancelled, envVars, loopVars, txAborted,
                 txBuilt, txLocks, gateVars, seen, pre, begins, execs>>

\* public_health for FlagSpec: below_poverty_level is MaxLevel in the last j
\* community areas, unemployment in the first k.
FlagInit ==
  /\ \E n \in TopLimit..MaxAreas, j \in 0..MaxAreas, k \in 0..MaxAreas :
       db = Collected(
              { [community_area |-> a,
                 below_poverty_level |-> IF a > n - j THEN MaxLevel ELSE 0,
                 unemployment |-> IF a <= k THEN MaxLevel ELSE 0]
                : a \in 1..n },
              SomePermits, CHOOSE c \in CovidContents : TRUE,
              CHOOSE t \in TaxiTripsContents : TRUE, SomeCcvi)
  /\ cpc = [t \in SourceSet |-> "idle"]
  /\ runOnce = FALSE
  /\ crosswalkFile = SomeCrosswalk
  /\ pc = "flag_begin"
  /\ pre = [t \in ReportSet |-> NoRelation]
  /\ tx = [t \in ReportSet |-> NoRelation]
  /\ Started

FlagNext == FlagBegin \/ FlagStmt \/ FlagCommit

FlagSpec == FlagInit /\ [][FlagNext]_vars

(***************************************************************************)
(* The crosswalk: loadCommunityAreaZipCodes on the file, and the two       *)
(* functions that fill zip_code from it, USE_GEOCODING not set.  The file  *)
(* is absent or a sequence of lines, each line the sequence of its fields, *)
(* each field a text; a line of one empty field is a blank line.  In the   *)
(* tables community_area and zip_code are texts.                           *)
(***************************************************************************)
MaxRecords == 3   \* lines of the file at most

Digits == <<"0", "1", "2", "3", "4", "5", "6", "7", "8", "9">>
IsDigit(c) == \E i \in 1..Len(Digits) : Digits[i] = c
DigitValue(c) == (CHOOSE i \in 1..Len(Digits) : Digits[i] = c) - 1

\* strings.TrimSpace
RECURSIVE TrimSpace(_)
TrimSpace(s) ==
  IF s # <<>> /\ Head(s) = " " THEN TrimSpace(Tail(s))
  ELSE IF s # <<>> /\ s[Len(s)] = " "
       THEN TrimSpace(SubSeq(s, 1, Len(s) - 1))
       ELSE s

\* reader.TrimLeadingSpace = true
RECURSIVE TrimLeadingSpace(_)
TrimLeadingSpace(s) ==
  IF s # <<>> /\ Head(s) = " " THEN TrimLeadingSpace(Tail(s)) ELSE s

\* strings.EqualFold: equal when letters of either case are taken as one.
Fold(c) == IF c = "Community_Area" THEN "community_area" ELSE c
EqualFold(a, b) ==
  Len(a) = Len(b) /\ \A i \in 1..Len(a) : Fold(a[i]) = Fold(b[i])

RECURSIVE DecimalValue(_)
DecimalValue(s) ==
  IF s = <<>> THEN 0
  ELSE DecimalValue(SubSeq(s, 1, Len(s) - 1)) * 10 + DigitValue(s[Len(s)])

\* strconv.Atoi: an optional sign and one or more decimal digits.
Atoi(s) ==
  LET signed == s # <<>> /\ s[1] \in {"+", "-"}
      digits == IF signed THEN Tail(s) ELSE s
  IN IF digits = <<>> \/ \E i \in 1..Len(digits) : ~IsDigit(digits[i])
     THEN [ok |-> FALSE, n |-> 0]
     ELSE [ok |-> TRUE,
           n |-> IF signed /\ s[1] = "-" THEN 0 - DecimalValue(digits)
                 ELSE DecimalValue(digits)]

\* fmt.Sprintf("%d", n)
RECURSIVE FormatInt(_)
FormatInt(n) ==
  IF n < 0 THEN <<"-">> \o FormatInt(0 - n)
  ELSE IF n < 10 THEN <<Digits[n + 1]>>
  ELSE FormatInt(n \div 10) \o <<Digits[(n % 10) + 1]>>

\* The lines of the file that are records: the reader skips blank lines.
Records(lines) == SelectSeq(lines, LAMBDA l : l # <<<<>>>>)

\* Mutant of ReadAll: records of any number of fields.
ReadAllAnyFieldCount(lines) ==
  [ok |-> TRUE,
   records |-> [i \in 1..Len(Records(lines)) |->
                  [j \in 1..Len(Records(lines)[i]) |->
                     TrimLeadingSpace(Records(lines)[i][j])]]]

\* csv.Reader.ReadAll with FieldsPerRecord 0: every record must have the
\* number of fields of the first record.
ReadAll(lines) ==
  LET rs == Records(lines)
  IN IF \E i \in 1..Len(rs) : Len(rs[i]) # Len(rs[1])
     THEN [ok |-> FALSE, records |-> <<>>]
     ELSE [ok |-> TRUE,
           records |-> [i \in 1..Len(rs) |->
                          [j \in 1..Len(rs[i]) |->
                             TrimLeadingSpace(rs[i][j])]]]

LoadError(msg) == [called |-> TRUE, err |-> NewError(msg, ""), map |-> <<>>]

\* The loop of loadCommunityAreaZipCodes from record i on, areaZipMap being
\* m, and the return after it.
RECURSIVE LoadRecords(_, _, _)
LoadRecords(records, i, m) ==
  IF i > Len(records)
  THEN IF DOMAIN m = {}
       THEN LoadError("community area mapping file contained no data rows")
       ELSE [called |-> TRUE, err |-> Nil, map |-> m]
  ELSE IF Len(records[i]) < 2
  THEN LoadError("invalid row: expected community_area and zip_code")
  ELSE LET communityAreaRaw == TrimSpace(records[i][1])
           zipCode == TrimSpace(records[i][2])
       IN IF i = 1 /\ EqualFold(communityAreaRaw, Text("community_area"))
          THEN LoadRecords(records, i + 1, m)
          ELSE IF communityAreaRaw = <<>> \/ zipCode = <<>>
          THEN LoadError("missing community_area or zip_code")
          ELSE IF ~Atoi(communityAreaRaw).ok
          THEN LoadError("invalid community_area")
          ELSE LoadRecords(records, i + 1,
                           (Atoi(communityAreaRaw).n :> zipCode) @@ m)

\* loadCommunityAreaZipCodes()
loadCommunityAreaZipCodes(file) ==
  IF ~file.exists
  THEN LoadError("failed to open community area zip code mapping")
  ELSE IF ~ReadAll(file.records).ok
  THEN LoadError("failed to read community area zip code mapping")
  ELSE LoadRecords(ReadAll(file.records).records, 1, <<>>)

\* Mutant of MatchesArea: the community areas compared as numbers.
MatchesAreaAsNumber(r, k) ==
  /\ ~IsNull(r, "community_area")
  /\ Atoi(r.community_area).ok
  /\ Atoi(r.community_area).n = k

\* WHERE d."community_area"::text = mapping.community_area, the mapping's
\* community_area being '%d' of the key k.
MatchesArea(r, k) ==
  ~IsNull(r, "community_area") /\ r.community_area = FormatInt(k)

\* UPDATE t SET zip_code = '' and UPDATE t SET zip_code = mapping.zip_code
\* FROM (VALUES ...) AS mapping WHERE ...: the rows of the table after both.
BackfillZip(rows, m) ==
  { [r EXCEPT !.zip_code =
       IF \E k \in DOMAIN m : MatchesArea(r, k)
       THEN m[CHOOSE k \in DOMAIN m : MatchesArea(r, k)]
       ELSE <<>>] : r \in rows }

\* Mutant of ZipFailed: the statements the transaction had executed stay.
ZipFailedKeepsWrites(err) ==
  /\ db' = Commit(db, tx)
  /\ tx' = [t \in ReportSet |-> NoRelation]
  /\ txOpen' = FALSE
  /\ pc' = "zip_done"
  /\ Returned("disadvantaged", "error", err, "", FALSE)

\* The return of an error from the call of the builder, tx.Rollback() done.
ZipFailed(err) ==
  /\ db' = Rollback(db, tx)
  /\ tx' = [t \in ReportSet |-> NoRelation]
  /\ txOpen' = FALSE
  /\ pc' = "zip_done"
  /\ Returned("disadvantaged", "error", err, "", FALSE)

\* populateDisadvantagedZipCodes(tx, table) and, without geocoding,
\* populatePermitZipCodes(tx, table, false): the first UPDATE fails, or the
\* file is rejected, or the second UPDATE fails, or the table is filled.
PopulateZipCodes(table, next, msg) ==
  LET res == loadCommunityAreaZipCodes(crosswalkFile)
  IN \/ UNCHANGED loaded /\ ZipFailed(Wrap(msg, DbErr))
     \/ /\ loaded' = res
        /\ \/ res.err # Nil /\ ZipFailed(Wrap(msg, res.err))
           \/ res.err = Nil /\ ZipFailed(Wrap(msg, DbErr))
           \/ /\ res.err = Nil
              /\ tx' = [tx EXCEPT ![table] =
                          Relation(BackfillZip(tx[table].rows, res.map))]
              /\ pc' = next
              /\ UNCHANGED <<db, txOpen, ret>>

PopulateDisadvantagedZipCodes ==
  /\ pc = "zip_disadvantaged"
  /\ PopulateZipCodes(disadvantagedTable, "zip_permits",
                      "failed to populate disadvantaged zip codes")
  /\ UNCHANGED <<collectorVars, ctxCancelled, runOnce, crosswalkFile,
                 ident, idx, loopVars, txAborted, txBuilt, txLocks, gateVars, seen,
                 histVars>>

PopulatePermitZipCodes ==
  /\ pc = "zip_permits"
  /\ PopulateZipCodes(disadvantagedPermitsTable, "zip_commit",
                      "failed to populate zip codes")
  /\ UNCHANGED <<collectorVars, ctxCancelled, runOnce, crosswalkFile,
                 ident, idx, loopVars, txAborted, txBuilt, txLocks, gateVars, seen,
                 histVars>>

\* tx.Commit() and the return of nil.
ZipCommit ==
  /\ pc = "zip_commit"
  /\ db' = Commit(db, tx)
  /\ tx' = [t \in ReportSet |-> NoRelation]
  /\ txOpen' = FALSE
  /\ pc' = "zip_done"
  /\ calls' = [calls EXCEPT !["disadvantaged"] = @ + 1]
  /\ Returned("disadvantaged", "nil", Nil, "", FALSE)
  /\ UNCHANGED <<collectorVars, ctxCancelled, envVars, idx, loopVars,
                 txAborted, txBuilt, txLocks, gateVars, seen, pre, begins,
                 execs>>

\* The fields of the files: community areas 5, 05 and 6, with spaces, not a
\* number, empty, and the header in two cases; two ZIP codes and none.
AreaFields ==
  { <<>>, Text("5"), <<"0", "5">>, <<" ", "5", " ">>, Text("6"), Text("x"),
    Text("community_area"), Text("Community_Area") }
ZipFields == { <<>>, Text("60615"), Text("60637") }

\* A blank line, a line of one field, of two, of three.
Lines ==
  { <<<<>>>>, <<Text("5")>> }
  \cup { <<a, z>> : a \in AreaFields, z \in ZipFields }
  \cup { <<Text("5"), Text("60615"), Text("x")>>,
         <<Text("6"), Text("60637"), Text("x")>> }

CrosswalkFiles ==
  { [exists |-> FALSE, records |-> <<>>] }
  \cup { [exists |-> TRUE, records |-> ls] :
           ls \in UNION { [1..n -> Lines] : n \in 0..MaxRecords } }

\* What an earlier run committed of disadvantaged and the permits report.
EarlierReports ==
  [t \in ReportSet |->
     IF t = disadvantagedTable
     THEN Relation({ [community_area |-> Text("5"),
                      zip_code |-> Text("60637")] })
     ELSE IF t = disadvantagedPermitsTable
     THEN Relation({ [id |-> 9, community_area |-> Text("5"),
                      zip_code |-> Text("60637")] })
     ELSE NoRelation]

\* disadvantaged and the permits report as the statement list leaves them,
\* zip_code DEFAULT ''; a permit may have no community_area.  The database
\* holds no report table, or those of an earlier run.
ZipInit ==
  /\ crosswalkFile \in CrosswalkFiles
  /\ pre \in { [t \in ReportSet |-> NoRelation], EarlierReports }
  /\ db = Commit(Collected(CHOOSE p \in PublicHealthContents : TRUE,
                           SomePermits, CHOOSE c \in CovidContents : TRUE,
                           CHOOSE t \in TaxiTripsContents : TRUE, SomeCcvi),
                 pre)
  /\ tx = [t \in ReportSet |->
             IF t = disadvantagedTable
             THEN Relation({ [community_area |-> a, zip_code |-> <<>>]
                             : a \in {Text("5"), <<"0", "5">>, Text("6"),
                                      Text("7")} })
             ELSE IF t = disadvantagedPermitsTable
             THEN Relation({ [id |-> 1, community_area |-> Text("5"),
                              zip_code |-> <<>>],
                             [id |-> 2, community_area |-> <<"0", "6">>,
                              zip_code |-> <<>>],
                             [id |-> 3, community_area |-> <<>>,
                              zip_code |-> <<>>],
                             [id |-> 4, zip_code |-> <<>>] })
             ELSE NoRelation]
  /\ cpc = [t \in SourceSet |-> "idle"]
  /\ runOnce = FALSE
  /\ pc = "zip_disadvantaged"
  /\ csteps = 0
  /\ ctxCancelled = FALSE
  /\ idx = 1
  /\ tickPending = FALSE
  /\ cycles = 0
  /\ ticksTaken = 0
  /\ txOpen = TRUE
  /\ txAborted = FALSE
  /\ txBuilt = {}
  /\ txLocks = {}
  /\ lastErr = Nil
  /\ gateErr = Nil
  /\ ret = [NotCalled EXCEPT !.who = "disadvantaged", !.state = "running"]
  /\ seen = [t \in SourceSet |-> Unseen]
  /\ pollCancelled = FALSE
  /\ calls = [b \in Builders |-> 0]
  /\ begins = 1
  /\ execs = 0
  /\ loaded = NotLoaded
  /\ ident = NotQuoted

ZipNext == PopulateDisadvantagedZipCodes \/ PopulatePermitZipCodes \/ ZipCommit

ZipSpec == ZipInit /\ [][ZipNext]_vars

(***************************************************************************)
(* quoteIdentifier.  The names are the texts of at most MaxLen characters  *)
(* over the double quote, a letter and the semicolon; the function is      *)
(* applied to a name the caller chose.                                     *)
(***************************************************************************)
MaxLen == 4
DoubleQuote == "\""
NameChars == {DoubleQuote, "a", ";"}
IdentNames == UNION { [1..n -> NameChars] : n \in 0..MaxLen }

RECURSIVE ReplaceAll(_, _, _)
\* strings.ReplaceAll(s, old, new) for an old of one character
ReplaceAll(s, old, new) ==
  IF s = <<>> THEN <<>>
  ELSE (IF Head(s) = old THEN new ELSE <<Head(s)>>)
       \o ReplaceAll(Tail(s), old, new)

\* Mutant of quoteIdentifier: the name between two quotes, nothing escaped.
quoteWithoutEscape(name) == <<DoubleQuote>> \o name \o <<DoubleQuote>>

\* quoteIdentifier(name)
quoteIdentifier(name) ==
  <<DoubleQuote>>
  \o ReplaceAll(name, DoubleQuote, <<DoubleQuote, DoubleQuote>>)
  \o <<DoubleQuote>>

\* A call of quoteIdentifier.
QuoteIdentifierCall ==
  /\ ~ident.called
  /\ ident' = [ident EXCEPT !.called = TRUE,
                            !.quoted = quoteIdentifier(ident.name)]
  /\ UNCHANGED <<db, collectorVars, ctxCancelled, runOnce, crosswalkFile,
                 loaded, pc, idx, loopVars, txVars, gateVars, ret, seen,
                 histVars>>

QuoteInit ==
  /\ ident \in [called : {FALSE}, name : IdentNames, quoted : {<<>>}]
  /\ db = Collected(CHOOSE p \in PublicHealthContents : TRUE, SomePermits,
                    CHOOSE c \in CovidContents : TRUE,
                    CHOOSE t \in TaxiTripsContents : TRUE, SomeCcvi)
  /\ tx = [t \in ReportSet |-> NoRelation]
  /\ cpc = [t \in SourceSet |-> "idle"]
  /\ runOnce = FALSE
  /\ crosswalkFile = SomeCrosswalk
  /\ pc = "dis_stmt"
  /\ pre = [t \in ReportSet |-> NoRelation]
  /\ csteps = 0
  /\ ctxCancelled = FALSE
  /\ idx = 1
  /\ tickPending = FALSE
  /\ cycles = 0
  /\ ticksTaken = 0
  /\ txOpen = TRUE
  /\ txAborted = FALSE
  /\ txBuilt = {}
  /\ txLocks = {}
  /\ lastErr = Nil
  /\ gateErr = Nil
  /\ ret = [NotCalled EXCEPT !.who = "disadvantaged", !.state = "running"]
  /\ seen = [t \in SourceSet |-> Unseen]
  /\ pollCancelled = FALSE
  /\ calls = [b \in Builders |-> 0]
  /\ begins = 1
  /\ execs = 0
  /\ loaded = NotLoaded

QuoteSpec == QuoteInit /\ [][QuoteIdentifierCall]_vars

(***************************************************************************)
(* Properties.                                                             *)
(***************************************************************************)
CovidPcs == {"covid_dep", "covid_begin", "covid_stmt", "covid_commit"}
GateReturnedNil == pc \notin GatePcs /\ gateErr = Nil
Finished == ret.state \in {"nil", "error"}

\* C1: a builder that returned an error (a failed statement at any place of
\* its list included) has closed its transaction, and every report table is
\* exactly what it was when the builder was called: absent, or the contents
\* the previous run committed.
C1_Atomicity ==
  ret.state = "error" =>
    /\ ~txOpen
    /\ \A t \in ReportSet : db[t] = pre[t]

\* A statement of the covid builder failed after the transaction had
\* changed report tables that held the previous run's contents.
C1_Witness ==
  /\ ret.who = "covid"
  /\ ret.state = "error"
  /\ ret.err[1].msg = "failed to execute statement"
  /\ ret.dirty
  /\ pre[covidRepCatsTable].exists
  /\ pre[monthlyTripsTable].exists

\* C2: WaitForTablesReady returns nil only when, in its last poll, every
\* source table was found to exist with a row count above zero; a poll that
\* finds a table missing or empty ends in the wait for the next poll.
C2_NilOnlyWhenAllReady ==
  /\ GateReturnedNil => \A t \in SourceSet : Ready(seen[t])
  /\ pc = "gate_poll" => \A t \in SourceSet : seen[t].seen => Ready(seen[t])
  /\ pc = "gate_select" =>
       \E t \in SourceSet :
         /\ seen[t].seen
         /\ ~Ready(seen[t])
         /\ Names(lastErr, t)

\* The gate let the pipeline through while a collector had inserted only the
\* first of its records.
C2_Witness ==
  /\ GateReturnedNil
  /\ \E t \in SourceSet : db[t].rows = 1 /\ cpc[t] = "insert"

\* C3: a builder opens its transaction only after each of its dependencies
\* was found to exist with rows; a dependency found missing or empty ends the
\* call at once with an error that names it, with no transaction begun, no
\* statement executed and every report table as it was.
C3_Dependencies(b) ==
  IF b = "covid"
  THEN {covidTable, taxiTripsTable, ccviTable}
  ELSE {publichealthTable, buildingPermits}

C3_DependencyFailFast ==
  /\ txOpen => \A t \in C3_Dependencies(ret.who) : Ready(seen[t])
  /\ ret.state = "running" =>
       \A t \in SourceSet : seen[t].seen => Ready(seen[t])
  /\ \A t \in SourceSet :
       (Finished /\ seen[t].seen /\ ~Ready(seen[t])) =>
         /\ ret.state = "error"
         /\ ret.dep = t
         /\ Names(ret.err, t)
         /\ begins = 0
         /\ execs = 0
         /\ ~ret.dirty
         /\ ~txOpen
         /\ \A r \in ReportSet : db[r] = pre[r]

\* The disadvantaged builder found public_health with zero rows and returned.
C3_Witness ==
  /\ ret.who = "disadvantaged"
  /\ ret.state = "error"
  /\ ret.dep = publichealthTable
  /\ seen[publichealthTable].exists
  /\ ~seen[publichealthTable].nonempty
  /\ pre[disadvantagedTable].exists

\* C4: each statement a builder is about to execute reads only derived
\* tables and derived columns that earlier statements of the same
\* transaction have built: none left over from a previous cycle, none not
\* created yet.
CurrentStatement ==
  IF pc = "covid_stmt" THEN CovidStatements[idx] ELSE DisadvantagedStatements[idx]

C4_OrderedReads ==
  pc \in {"covid_stmt", "dis_stmt"} => StaleReads(txBuilt, CurrentStatement) = {}

\* In the second cycle a statement reads a derived column while the table
\* committed by the first cycle is still in the database.
C4_Witness ==
  /\ pc = "covid_stmt"
  /\ cycles = 2
  /\ <<covidAlertsTable, "week_start">> \in DerivedReads(CurrentStatement)
  /\ db[covidAlertsTable].exists

\* C5: in every cycle the disadvantaged builder is called once the covid
\* builder has returned, whatever it returned; main returns only on a
\* cancelled context (or from the gate, before any cycle); and a builder
\* leaves the tables of the other builder as they were.
C5_FailureIsolation ==
  /\ calls["covid"] = cycles
  /\ calls["disadvantaged"] =
       IF pc \in CovidPcs \cup {"dis_entry"} THEN cycles - 1 ELSE cycles
  /\ pc = "exit" => ctxCancelled
  /\ pc = "fatal" => cycles = 0
  /\ ret.who = "covid" => \A t \in DisadvantagedOwned : db[t] = pre[t]
  /\ ret.who = "disadvantaged" => \A t \in CovidOwned : db[t] = pre[t]

\* The covid builder failed in the first cycle and the disadvantaged builder
\* of the same cycle ran and committed.
C5_Witness ==
  /\ cycles = 1
  /\ ret.who = "disadvantaged"
  /\ ret.state = "nil"
  /\ ~db[covidRepCatsTable].exists
  /\ db[disadvantagedTable].exists

\* C6: whatever a report table was computed from was read from a source
\* table whose collector was not in the middle of its run.
C6_CopiesOnlyFinishedCollections ==
  \A t \in ReportSet : \A p \in db[t].prov \cup tx[t].prov : p[3]

\* C7, as claimed: the error WaitForTablesReady returns on cancellation wraps
\* the context's cancellation error.
C7_CancellationErrorIsCtxErr ==
  pc = "fatal" => Is(gateErr, CtxErr)

\* C7, amended: WaitForTablesReady waits for the next poll only after a poll
\* that failed; it returns an error only on a cancelled context, which is
\* ctx.Err() or "context canceled while waiting for tables" wrapping the
\* failure of the last poll; it returns nil from no poll that began with the
\* context cancelled; and once the context is cancelled it returns.
C7_GateTerminates ==
  /\ [](pc = "gate_select" => lastErr # Nil)
  /\ [](pc = "fatal" =>
          /\ ctxCancelled
          /\ \/ gateErr = CtxErr
             \/ /\ lastErr # Nil
                /\ gateErr = Wrap("context canceled while waiting for tables",
                                  lastErr)
                /\ \E t \in SourceSet : Names(gateErr, t))
  /\ [](GateReturnedNil => ~pollCancelled)
  /\ (ctxCancelled ~> pc \notin GatePcs)

\* The gate returned the failure of its last poll, not the context's error.
C7_Witness ==
  /\ pc = "fatal"
  /\ Names(gateErr, covidTable)
  /\ ~Is(gateErr, CtxErr)

\* C8, as claimed: once the context is cancelled main has returned or its
\* goroutine has a step to take towards returning, in both modes.
C8_ShutdownObservedInBothModes ==
  ctxCancelled => (pc \in {"exit", "fatal"} \/ ENABLED Orchestrator)

\* C8, amended: in periodic mode no cycle starts once the context is
\* cancelled and main returns; in RUN_ONCE mode main blocks for good after
\* its cycle; in both modes a transaction is open only inside a running
\* builder, never once main has returned or blocks.
C8_ShutdownObserved ==
  /\ [][(ctxCancelled /\ ~runOnce) => cycles' = cycles]_vars
  /\ [](txOpen => pc \notin GatePcs \cup
                   {"fatal", "exit", "idle", "wait", "loop_top", "run_once"})
  /\ [][pc = "idle" => pc' = "idle"]_vars
  /\ ((ctxCancelled /\ ~runOnce) ~> pc \in {"exit", "fatal"})

\* Main returned after a cycle although a tick was waiting in the ticker.
C8_Witness ==
  /\ ~runOnce
  /\ pc = "exit"
  /\ cycles = 1
  /\ tickPending
  /\ Finished

\* C9: in periodic mode the first cycle needs no tick and every later cycle
\* has received a tick of its own; in RUN_ONCE mode one cycle runs and no
\* other.
C9_Cadence ==
  /\ ~runOnce =>
       /\ ticksTaken <= cycles
       /\ cycles <= ticksTaken + 1
       /\ pc \notin GatePcs \cup {"fatal", "exit", "loop_top"} =>
            cycles = ticksTaken + 1
  /\ (pc = "loop_top" /\ cycles = 0 /\ ~ctxCancelled) => ENABLED LoopTop
  /\ runOnce =>
       /\ cycles <= 1
       /\ ticksTaken = 0
       /\ pc = "idle" => cycles = 1
       /\ (pc = "run_once" /\ cycles = 0) => ENABLED RunOnceStart

\* The second cycle of the periodic mode runs after the first tick.
C9_Witness ==
  /\ ~runOnce
  /\ cycles = 2
  /\ ticksTaken = 1
  /\ pc = "covid_commit"

\* The source contents have no tie at the LIMIT: the rows ORDER BY col DESC
\* LIMIT n returns are all above the rows it leaves out.
NoTieAtLimit(rows, col, n) ==
  \/ Cardinality(rows) <= n
  \/ \E S \in SUBSET rows :
       /\ Cardinality(S) = n
       /\ \A r \in S : \A q \in rows \ S : ~DescAbove(q, r, col)

\* The rows of covid of one ZIP code and week_start are of one category.
OneCategoryPerWeek(covid) ==
  \A c \in covid : \A e \in covid :
    (c.zip_code = e.zip_code /\ c.week_start = e.week_start) =>
      CovidCat(c.case_rate_weekly) = CovidCat(e.case_rate_weekly)

Owned(b) == IF b = "covid" THEN CovidOwned ELSE DisadvantagedOwned

\* The latest call was the second call in a row of builder b.
CalledAgain(b) == ret.who = b /\ ret.state = "nil" /\ calls[b] >= 2

CovidBuilt == ret.who = "covid" /\ ret.state = "nil"

DisadvantagedBuilt == ret.who = "disadvantaged" /\ ret.state = "nil"

\* The rows of d that flag marks are Min(TopLimit, n) of its n rows, and the
\* col of a marked row is at least the col of every other row, where a row
\* of a NULL col is below every row of a value.
TopFlagged(d, flag, col) ==
  /\ Cardinality({r \in d : r[flag]}) = Min(TopLimit, Cardinality(d))
  /\ \A r \in d : \A q \in d :
       (r[flag] /\ ~q[flag]) =>
         /\ ~IsNull(r, col) \/ IsNull(q, col)
         /\ (~IsNull(r, col) /\ ~IsNull(q, col)) => r[col] >= q[col]

C13_DisadvantagedFlag ==
  db[disadvantagedTable].exists =>
    \A r \in db[disadvantagedTable].rows :
      /\ {"top_5_poverty", "top_5_unemployment", "disadvantaged"}
           \subseteq DOMAIN r
      /\ r.disadvantaged <=> (r.top_5_poverty \/ r.top_5_unemployment)

\* A second call has set a top_5 flag of a row and has not yet set its
\* disadvantaged, while the committed table is the one of the first call,
\* with rows of either value of disadvantaged.
C13_Witness ==
  /\ calls["disadvantaged"] >= 1
  /\ txOpen
  /\ pc = "flag_stmt"
  /\ idx \in 6..7
  /\ \E r \in tx[disadvantagedTable].rows :
       r.top_5_poverty /\ ~r.disadvantaged
  /\ \E r \in db[disadvantagedTable].rows : r.disadvantaged
  /\ \E q \in db[disadvantagedTable].rows : ~q.disadvantaged

\* The rows of a forecast table: one row for every dropoff ZIP code of
\* covid_alerts, its trips the mean of the ZIP code's counts per bucket over
\* the buckets in which it has a trip (trips = <<p, q>> is the number p / q),
\* its label the given one.
FlatForecast(rows, alerts, bucket, label) ==
  /\ {r.zip_code : r \in rows} = {t.dropoff_zip_code : t \in alerts}
  /\ \A r \in rows :
       LET mine == {t \in alerts : t.dropoff_zip_code = r.zip_code}
       IN /\ \A q \in rows : q.zip_code = r.zip_code => q = r
          /\ r[bucket] = label
          /\ r.trips[2] > 0
          /\ r.trips[1] * Cardinality({t[bucket] : t \in mine})
               = r.trips[2] * Cardinality(mine)

\* C14: the trips of a dropoff ZIP code in req_4_daily_trips is the mean of
\* its counts per day over the days on which it has a trip, and the row is
\* dated one day after the latest day of covid_alerts; req_4_weekly_trips
\* and req_4_monthly_trips likewise with week_start and one week, month_start
\* and one month.
C14_FlatForecast ==
  CovidBuilt =>
    LET alerts == db[covidAlertsTable].rows
    IN /\ FlatForecast(db[dailyTripsTable].rows, alerts, "day",
                       MaxOf({t.trip_start_timestamp : t \in alerts}) + 1)
       /\ FlatForecast(db[weeklyTripsTable].rows, alerts, "week_start",
                       MaxOf({t.week_start : t \in alerts}) + 7)
       /\ FlatForecast(db[monthlyTripsTable].rows, alerts, "month_start",
                       NextMonth(MaxOf({t.month_start : t \in alerts})))

\* Two trips to a ZIP code on 10 January and one on 1 February: a mean of
\* 3 / 2 a day dated 2 February, and of 3 / 2 a week and a month.
C14_Witness ==
  /\ CovidBuilt
  /\ [zip_code |-> "60666", day |-> 30, trips |-> <<3, 2>>]
       \in db[dailyTripsTable].rows
  /\ [zip_code |-> "60666", week_start |-> 34, trips |-> <<3, 2>>]
       \in db[weeklyTripsTable].rows
  /\ [zip_code |-> "60666", month_start |-> 57, trips |-> <<3, 2>>]
       \in db[monthlyTripsTable].rows

\* The first days of the months from January to April 2022.
MonthFirstDays == {0 - 2, 29, 57, 88}

\* day is the date of the trip start and month_start the first day of its
\* month.
DayAndMonth(t) ==
  /\ t.day = t.trip_start_timestamp
  /\ t.month_start \in MonthFirstDays
  /\ t.month_start <= t.day
  /\ \A m \in MonthFirstDays : m <= t.day => m <= t.month_start

\* C15, as claimed: in every row of req_1a_covid_alerts_drivers week_start
\* is the Monday that starts the week of the trip's start date (day 0 is a
\* Monday), day is the date of the trip start and month_start the first day
\* of its month.
C15_MondayAligned ==
  CovidBuilt =>
    \A t \in db[covidAlertsTable].rows :
      /\ t.week_start % 7 = 0
      /\ t.week_start <= t.day
      /\ t.day - t.week_start < 7
      /\ DayAndMonth(t)

\* C15, amended: week_start is the day before that Monday, the last Sunday
\* before the trip's start date (of a trip on a Sunday, the Sunday a week
\* before it); day and month_start are as claimed.
C15_SundayBeforeIsoWeek ==
  CovidBuilt =>
    \A t \in db[covidAlertsTable].rows :
      /\ t.week_start % 7 = 6
      /\ t.week_start < t.day
      /\ t.day - t.week_start <= 7
      /\ DayAndMonth(t)

\* A trip of Sunday 9 January is in the week of Sunday 2 January, and a trip
\* of Tuesday 1 February in the week of Sunday 30 January and the month of
\* 1 February.
C15_Witness ==
  /\ CovidBuilt
  /\ \E t \in db[covidAlertsTable].rows :
       t.day = 6 /\ t.week_start = 0 - 1 /\ t.month_start = 0 - 2
  /\ \E u \in db[covidAlertsTable].rows :
       u.day = 29 /\ u.week_start = 27 /\ u.month_start = 29

\* flag is true or false, and true exactly of a ZIP code of the airports; of
\* a NULL or empty ZIP code it is false.
AirportFlagOf(t, flag, zipcol) ==
  /\ ~IsNull(t, flag)
  /\ t[flag] <=> t[zipcol] \in {"60666", "60656", "60665", "60638"}
  /\ t[zipcol] \in {Null, ""} => ~t[flag]

\* C16: in every row of req_1a_covid_alerts_drivers airport_dropoff is true
\* if and only if dropoff_zip_code is 60666, 60656, 60665 or 60638, and
\* airport_pickup likewise of pickup_zip_code; of a NULL or empty ZIP code
\* the flag is false, never NULL.
C16_AirportFlags ==
  CovidBuilt =>
    \A t \in db[covidAlertsTable].rows :
      /\ AirportFlagOf(t, "airport_dropoff", "dropoff_zip_code")
      /\ AirportFlagOf(t, "airport_pickup", "pickup_zip_code")

\* A trip from an airport to a NULL ZIP code and a trip from an empty ZIP
\* code to another ZIP code.
C16_Witness ==
  /\ CovidBuilt
  /\ \E t \in db[covidAlertsTable].rows :
       /\ t.pickup_zip_code = "60666" /\ t.airport_pickup
       /\ t.dropoff_zip_code = Null /\ ~t.airport_dropoff
  /\ \E u \in db[covidAlertsTable].rows :
       /\ u.pickup_zip_code = "" /\ ~u.airport_pickup
       /\ u.dropoff_zip_code = "60601" /\ ~u.airport_dropoff

\* The trips of taxi_trips that start in the week of week_start w and have
\* ZIP code z in zipcol.
TripsOfWeek(z, w, zipcol) ==
  {t \in db[taxiTripsTable].rows :
     t[zipcol] = z /\ WeekStart(t.trip_start_timestamp) = w}

\* C17: every row of req_3_ccvi_trips is a row of ccvi of geography_type
\* 'ZIP' and ccvi_category 'HIGH' with a week, and its weekly_trips is the
\* number of trips of that week with that pickup ZIP code plus the number
\* with that dropoff ZIP code, a trip with both counted twice; every such
\* row of ccvi and week with a trip has its row.
C17_CcviHighTrips ==
  CovidBuilt =>
    /\ \A r \in db[CCVITable].rows :
         /\ r.geography_type = "ZIP"
         /\ r.ccvi_category = "HIGH"
         /\ \E c \in db[ccviTable].rows : c.id = r.id
         /\ r.weekly_trips =
              Cardinality(TripsOfWeek(r.community_area_or_zip, r.week_start,
                                      "pickup_zip_code"))
              + Cardinality(TripsOfWeek(r.community_area_or_zip,
                                        r.week_start, "dropoff_zip_code"))
    /\ \A c \in db[ccviTable].rows : \A t \in db[taxiTripsTable].rows :
         ( /\ c.geography_type = "ZIP"
           /\ c.ccvi_category = "HIGH"
           /\ c.community_area_or_zip
                \in {t.pickup_zip_code, t.dropoff_zip_code} )
         => \E r \in db[CCVITable].rows :
              /\ r.id = c.id
              /\ r.week_start = WeekStart(t.trip_start_timestamp)

\* The only trip of a week is from and to the ZIP code of a row of ccvi of
\* category HIGH and counts 2, and trips of a ZIP code of category LOW have
\* no row.
C17_Witness ==
  /\ CovidBuilt
  /\ \E r \in db[CCVITable].rows :
       /\ r.weekly_trips = 2
       /\ Cardinality({t \in db[taxiTripsTable].rows :
                         WeekStart(t.trip_start_timestamp) = r.week_start})
            = 1
  /\ \E t \in db[taxiTripsTable].rows : t.dropoff_zip_code = "60601"

\* The records of the file, and those of them that are data rows: not a
\* first row whose community area is the header's name in any case.
FileRows == Records(crosswalkFile.records)
AreaOf(row) == TrimSpace(TrimLeadingSpace(row[1]))
ZipOf(row) == TrimSpace(TrimLeadingSpace(row[2]))
DataRows ==
  { i \in 1..Len(FileRows) :
      ~(i = 1 /\ EqualFold(AreaOf(FileRows[i]), Text("community_area"))) }

\* The text is an integer: an optional sign and decimal digits.
IsInteger(s) ==
  LET d == IF s # <<>> /\ s[1] \in {"+", "-"} THEN Tail(s) ELSE s
  IN d # <<>> /\ \A i \in 1..Len(d) : IsDigit(d[i])

\* The file is one the claim says the loader rejects.
Rejected ==
  \/ ~crosswalkFile.exists
  \/ DataRows = {}
  \/ \E i \in 1..Len(FileRows) : Len(FileRows[i]) < 2
  \/ \E i \in DataRows :
       AreaOf(FileRows[i]) = <<>> \/ ZipOf(FileRows[i]) = <<>>
  \/ \E i \in DataRows : ~IsInteger(AreaOf(FileRows[i]))

\* The records of the file differ in their number of fields.
Ragged ==
  /\ crosswalkFile.exists
  /\ \E i \in 1..Len(FileRows) : Len(FileRows[i]) # Len(FileRows[1])

\* The loader returned an error and no mapping if reject, and else a map of
\* one entry for every area code of a data row, to a ZIP code of such a row.
LoaderReturned(reject) ==
  IF reject
  THEN loaded.err # Nil /\ loaded.map = <<>>
  ELSE /\ loaded.err = Nil
       /\ DOMAIN loaded.map =
            {Atoi(AreaOf(FileRows[i])).n : i \in DataRows}
       /\ \A k \in DOMAIN loaded.map :
            \E i \in DataRows : /\ Atoi(AreaOf(FileRows[i])).n = k
                                /\ loaded.map[k] = ZipOf(FileRows[i])

\* C19, as claimed: loadCommunityAreaZipCodes returns an error and no mapping
\* when the file is absent, has no data row, has a row of fewer than two
\* columns, a data row of an empty area code or ZIP code or of an area code
\* that is not an integer, a header in the first row being skipped; of every
\* other file it returns a map of one entry for every distinct area code.
C19_LoaderRejection == loaded.called => LoaderReturned(Rejected)

\* C19, amended: it also returns an error and no mapping when the rows of
\* the file differ in their number of columns.
C19_LoaderRejectionOrRagged ==
  loaded.called => LoaderReturned(Rejected \/ Ragged)

\* A header in capitals and two data rows of the area codes 5 and 05: a map
\* of one entry.
C19_Witness ==
  /\ loaded.called
  /\ loaded.err = Nil
  /\ Len(crosswalkFile.records) = 3
  /\ crosswalkFile.records[1][1] = Text("Community_Area")
  /\ crosswalkFile.records[3][1] = <<"0", "5">>
  /\ DOMAIN loaded.map = {5}

\* The text is the decimal numeral of k: its value is k, and it has no plus
\* sign and no leading zero.
NumeralOf(s, k) ==
  /\ IsInteger(s)
  /\ Atoi(s).n = k
  /\ s[1] # "+"
  /\ Len(s) > 1 => s[1] # "0"

\* Every row of the table has the ZIP code the crosswalk m gives the
\* community area its community_area is the numeral of, and the empty
\* string if it gives none.
Backfilled(rows, m) ==
  \A r \in rows :
    IF ~IsNull(r, "community_area")
       /\ \E k \in DOMAIN m : NumeralOf(r.community_area, k)
    THEN \E k \in DOMAIN m :
           NumeralOf(r.community_area, k) /\ r.zip_code = m[k]
    ELSE r.zip_code = <<>>

\* C18: after a call of CreateDisadvantagedReport without geocoding that
\* returned nil, every row of disadvantaged and of the permits report whose
\* community_area is in the crosswalk the loader returned has the zip_code
\* of the crosswalk, and every other row the empty string.
C18_CrosswalkBackfill ==
  (pc = "zip_done" /\ ret.state = "nil") =>
    /\ Backfilled(db[disadvantagedTable].rows, loaded.map)
    /\ Backfilled(db[disadvantagedPermitsTable].rows, loaded.map)

\* Community area 5 is mapped to 60615: the rows of community_area 5 have
\* it, and the rows of community_area 05 or 06, of an empty one or of none
\* have the empty string.
C18_Witness ==
  /\ pc = "zip_done" /\ ret.state = "nil"
  /\ 5 \in DOMAIN loaded.map /\ loaded.map[5] = Text("60615")
  /\ 6 \in DOMAIN loaded.map
  /\ [community_area |-> Text("5"), zip_code |-> Text("60615")]
       \in db[disadvantagedTable].rows
  /\ [community_area |-> <<"0", "5">>, zip_code |-> <<>>]
       \in db[disadvantagedTable].rows
  /\ [id |-> 1, community_area |-> Text("5"), zip_code |-> Text("60615")]
       \in db[disadvantagedPermitsTable].rows
  /\ [id |-> 2, community_area |-> <<"0", "6">>, zip_code |-> <<>>]
       \in db[disadvantagedPermitsTable].rows
  /\ [id |-> 4, zip_code |-> <<>>] \in db[disadvantagedPermitsTable].rows

\* The report tables the README lists.
PublishedNames ==
  { "req_1a_covid_alerts_drivers", "req_1b_covid_alerts_residents",
    "req_2_airport_trips", "req_3_ccvi_trips", "req_4_daily_trips",
    "req_4_weekly_trips", "req_4_monthly_trips", "req_5_disadv_perm",
    "req_6_loan_elig_permits" }

\* C20: after a cycle in which both builders committed, here the first
\* cycle, every report table the README lists exists.
C20_PublishedTablesExist ==
  ( /\ cycles = 1
    /\ ret.who = "disadvantaged" /\ ret.state = "nil"
    /\ db[covidAlertsTable].exists )
  => \A n \in PublishedNames : n \in DOMAIN db /\ db[n].exists

RECURSIVE Unescape(_)
\* The text with every pair of double quotes halved.
Unescape(s) ==
  IF s = <<>> THEN <<>>
  ELSE IF Len(s) >= 2 /\ s[1] = DoubleQuote /\ s[2] = DoubleQuote
  THEN <<DoubleQuote>> \o Unescape(Tail(Tail(s)))
  ELSE <<Head(s)>> \o Unescape(Tail(s))

\* The outer quotes stripped and the doubled quotes halved.
Unquote(q) == Unescape(SubSeq(q, 2, Len(q) - 1))

RECURSIVE ClosingQuote(_, _)
\* Where a quoted identifier that opens before position i of q closes: at
\* the first double quote that no double quote follows; 0 if at none.
ClosingQuote(q, i) ==
  IF i > Len(q) THEN 0
  ELSE IF q[i] # DoubleQuote THEN ClosingQuote(q, i + 1)
  ELSE IF i < Len(q) /\ q[i + 1] = DoubleQuote THEN ClosingQuote(q, i + 2)
  ELSE i

\* The double quotes of a text.
QuotesIn(s) == Cardinality({ i \in 1..Len(s) : s[i] = DoubleQuote })

\* C21: what quoteIdentifier returns starts and ends with a double quote,
\* holds between them every character of the name, its double quotes
\* doubled, un-escapes to the name, closes at its last character and at no
\* earlier one, and is returned for no other name.
C21_QuoteIdentifier ==
  ident.called =>
    LET q == ident.quoted
    IN /\ Len(q) >= 2
       /\ q[1] = DoubleQuote /\ q[Len(q)] = DoubleQuote
       /\ Len(q) = Len(ident.name) + QuotesIn(ident.name) + 2
       /\ QuotesIn(q) = 2 * QuotesIn(ident.name) + 2
       /\ Unquote(q) = ident.name
       /\ ClosingQuote(q, 2) = Len(q)
       /\ \A n \in IdentNames : n # ident.name => quoteIdentifier(n) # q

\* A name with a double quote in its middle was quoted.
C21_Witness ==
  /\ ident.called
  /\ ident.name = <<"a", DoubleQuote, ";">>
  /\ ident.quoted = <<DoubleQuote, "a", DoubleQuote, DoubleQuote, ";",
                      DoubleQuote>>

\* The positions inside populateDisadvantagedZipCodes and
\* populatePermitZipCodes.
PopulatePcs ==
  { "dzip_clear", "dzip_load", "dzip_update", "pzip_clear", "pzip_load",
    "pzip_update", "pzip_query", "pzip_geo" }

\* CreateDisadvantagedReport has returned an error, its transaction is
\* closed and the report tables are what they were when it was called.
RolledBackWhole ==
  /\ ret.who = "disadvantaged" /\ ret.state = "error"
  /\ ~txOpen
  /\ \A t \in ReportSet : db[t] = pre[t]

\* C22: a step that leaves the two populate functions for another place
\* than the commit (a statement or a step of theirs failed) ends the call
\* rolled back whole with an error; a failed UPDATE of a permit's zip_code
\* stays with the transaction until the commit, and the step that leaves
\* the commit after such a failure ends the call rolled back whole with an
\* error too.
C22_PopulateFailureIsFatal ==
  [][ /\ (pc \in PopulatePcs /\ pc' \notin PopulatePcs \cup {"dis_commit"})
           => RolledBackWhole'
      /\ (pc = "pzip_geo" /\ txAborted) => txAborted'
      /\ (pc = "dis_commit" /\ txAborted /\ pc' # "dis_commit")
           => RolledBackWhole' ]_vars

\* With geocoding the UPDATE of a permit failed, the transaction had
\* changed report tables, and the call ended in the error of the commit.
C22_Witness ==
  /\ RolledBackWhole
  /\ Is(ret.err, FailedTxErr)
  /\ ret.err[1].msg = "failed to commit disadvantaged report transaction"
  /\ ret.dirty

\* C23: when loadCommunityAreaZipCodes has returned an error, the builder
\* has returned an error, its transaction is closed, and disadvantaged and
\* the permits report are what they were before the run, whatever the
\* transaction had written.
C23_ReferenceFailureLeavesNoTrace ==
  (loaded.called /\ loaded.err # Nil) =>
    /\ ret.state = "error"
    /\ Is(ret.err, loaded.err)
    /\ ~txOpen
    /\ db[disadvantagedTable] = pre[disadvantagedTable]
    /\ db[disadvantagedPermitsTable] = pre[disadvantagedPermitsTable]

\* The file was missing and the reports of an earlier run are in place.
C23_Witness ==
  /\ loaded.called /\ loaded.err # Nil
  /\ ~crosswalkFile.exists
  /\ ret.state = "error"
  /\ db[disadvantagedTable] = EarlierReports[disadvantagedTable]
  /\ db[disadvantagedPermitsTable] = EarlierReports[disadvantagedPermitsTable]

\* The columns of the permits report that are copied from disadvantaged,
\* each with the column of disadvantaged it is copied from.
PermitFlagSources ==
  { <<"top_5_poverty", "top_5_poverty">>,
    <<"top_5_unemployment", "top_5_unemployment">>,
    <<"waived_fee", "disadvantaged">> }

\* C24: after CreateDisadvantagedReport returned nil, a row of the permits
\* report has in top_5_poverty, top_5_unemployment and waived_fee what the
\* row of disadvantaged of its community area has in top_5_poverty,
\* top_5_unemployment and disadvantaged; a permit of a community area that
\* disadvantaged does not hold has FALSE in the three; and no row of the
\* permits report has a column disadvantaged.
C24_PermitFlagsFromDisadvantaged ==
  DisadvantagedBuilt =>
    \A p \in db[disadvantagedPermitsTable].rows :
      /\ "disadvantaged" \notin DOMAIN p
      /\ \A c \in PermitFlagSources :
           /\ c[1] \in DOMAIN p
           /\ \A d \in db[disadvantagedTable].rows :
                d.community_area = p.community_area => p[c[1]] = d[c[2]]
           /\ (\A d \in db[disadvantagedTable].rows :
                  d.community_area # p.community_area) => p[c[1]] = FALSE

\* A permit of a community area that is in the top five of unemployment and
\* not of poverty has its fee waived, and a permit of no community area of
\* disadvantaged has not, while other community areas are flagged.
C24_Witness ==
  /\ DisadvantagedBuilt
  /\ \E p \in db[disadvantagedPermitsTable].rows :
       /\ p.community_area = 1
       /\ p.waived_fee /\ p.top_5_unemployment /\ ~p.top_5_poverty
  /\ \E p \in db[disadvantagedPermitsTable].rows :
       /\ p.community_area = 0
       /\ ~p.waived_fee /\ ~p.top_5_unemployment /\ ~p.top_5_poverty
  /\ \E d \in db[disadvantagedTable].rows : d.top_5_poverty

\* The error of ensureTableReady about a table that is missing or empty.
NotReadyReason(err) ==
  /\ err # Nil
  /\ err[1].arg \in SourceSet
  /\ err[1].msg \in { "required table does not exist",
                       "required table has no data to report on" }

\* C25: when WaitForTablesReady has returned an error after a poll failed,
\* the error carries the reason of the most recent failed poll.
C25_CancellationCarriesReason ==
  (pc \notin GatePcs /\ gateErr # Nil /\ lastErr # Nil) =>
    Is(gateErr, lastErr)

\* C25, amended: a return of WaitForTablesReady with an error is made in
\* the select or at the top of the loop; made in the select, the error is
\* "context canceled while waiting for tables" around the error of the
\* failed poll of that iteration, which names the table and tells missing
\* from empty; made at the top of the loop, it is the context's error
\* alone.
C25_ReasonWhenCancelledInSelect ==
  [][ (pc \in GatePcs /\ pc' \notin GatePcs /\ gateErr' # Nil) =>
        IF pc = "gate_select"
        THEN /\ NotReadyReason(lastErr)
             /\ gateErr' = Wrap("context canceled while waiting for tables",
                                lastErr)
        ELSE pc = "gate_top" /\ gateErr' = CtxErr ]_vars

\* The wait was cancelled in the select after a poll had found a table
\* empty.
C25_Witness ==
  /\ pc \notin GatePcs
  /\ Len(gateErr) = 2
  /\ gateErr[1].msg = "context canceled while waiting for tables"
  /\ gateErr[2].msg = "required table has no data to report on"
  /\ gateErr[2].arg \in SourceSet

\* A builder has been invoked.
BuilderInvoked == \E b \in Builders : calls[b] > 0

\* C26: a builder has been invoked only after WaitForTablesReady returned
\* nil; after it returned an error the process has exited, no builder has
\* been invoked, no transaction is open and no report table exists; and a
\* call of a builder has begun at most one transaction.
C26_GatePrecedesBuilders ==
  /\ (BuilderInvoked \/ ret # NotCalled \/ txOpen) => GateReturnedNil
  /\ (pc \notin GatePcs /\ gateErr # Nil) =>
       /\ pc = "fatal"
       /\ ~BuilderInvoked /\ ret = NotCalled /\ ~txOpen
       /\ \A t \in ReportSet : ~db[t].exists
  /\ begins <= 1
  /\ txOpen => begins = 1

\* The gate returned nil, both builders were invoked, and the second one
\* has its one transaction open.
C26_Witness ==
  /\ GateReturnedNil
  /\ calls["covid"] = 1 /\ calls["disadvantaged"] = 1
  /\ ret.who = "disadvantaged" /\ ret.state = "running"
  /\ txOpen /\ begins = 1

\* C27: whatever a committed report table was computed from was read from
\* a source table that held at least one row when it was read, so that no
\* committed copy of a source table is empty.
C27_NoReportFromEmptySource ==
  \A t \in ReportSet :
    /\ \A p \in db[t].prov : p[2] > 0
    /\ (db[t].exists /\ db[t].prov # {}) => db[t].rows > 0

\* C28: a builder that has returned, nil or an error, has left no
\* transaction open; and where a builder stands before its tx.Commit(), the
\* transaction is open and no statement of it has failed.
C28_TransactionClosure ==
  /\ Finished => ~txOpen
  /\ pc \in {"covid_commit", "dis_commit"} => (txOpen /\ ~txAborted)

\* The categories of the rows of covid_rep_cats of a ZIP code whose seven
\* days from week_start hold the day; NULL if there is none.
CatsOfWeekHolding(repCats, zip, day) ==
  LET M == {c \in repCats : /\ c.zip_code = zip
                            /\ c.week_start <= day
                            /\ day <= c.week_start + 6}
  IN IF M = {} THEN {Null} ELSE {c.covid_cat : c \in M}

\* C29: in every row of req_1a_covid_alerts_drivers the day is one of the
\* seven days from week_start, and pickup_covid_cat and dropoff_covid_cat
\* are the covid_cat of the row of covid_rep_cats of that ZIP code whose
\* week holds the day.
C29_TripInsideItsWeek ==
  CovidBuilt =>
    \A t \in db[covidAlertsTable].rows :
      /\ t.week_start <= t.day
      /\ t.day <= t.week_start + 6
      /\ t.pickup_covid_cat
           \in CatsOfWeekHolding(db[covidRepCatsTable].rows,
                                 t.pickup_zip_code, t.day)
      /\ t.dropoff_covid_cat
           \in CatsOfWeekHolding(db[covidRepCatsTable].rows,
                                 t.dropoff_zip_code, t.day)

\* The forecast tables, each with its bucket column and the bucket one unit
\* after bucket b.
ForecastTables ==
  { <<dailyTripsTable, "day", [b \in Int |-> b + 1]>>,
    <<weeklyTripsTable, "week_start", [b \in Int |-> b + 7]>>,
    <<monthlyTripsTable, "month_start", [b \in Int |-> NextMonth(b)]>> }

\* The trips of covid_alerts dropped off in ZIP code z.
DroppedIn(z) == {t \in db[covidAlertsTable].rows : t.dropoff_zip_code = z}

\* C30: req_4_daily_trips, req_4_weekly_trips and req_4_monthly_trips hold
\* as many rows as the trips have dropoff ZIP codes, one of each; the rows
\* of a table carry one label, the bucket one unit after the latest bucket
\* of all trips, which of a ZIP code whose own latest bucket is an earlier
\* one is not the bucket after its own; and the trips of a row, the number
\* p / q for trips = <<p, q>>, times the number of buckets in which the ZIP
\* code has a trip is the number of its trips.
C30_ForecastShape ==
  CovidBuilt =>
    \A f \in ForecastTables :
      LET rows == db[f[1]].rows
          bucket == f[2]
          alerts == db[covidAlertsTable].rows
          zips == {t.dropoff_zip_code : t \in alerts}
      IN /\ Cardinality(rows) = Cardinality(zips)
         /\ \A z \in zips : \E r \in rows : r.zip_code = z
         /\ \A r \in rows :
              /\ r[bucket] = f[3][MaxOf({t[bucket] : t \in alerts})]
              /\ r[bucket] >=
                   f[3][MaxOf({t[bucket] : t \in DroppedIn(r.zip_code)})]
              /\ r.trips[2] > 0
              /\ r.trips[1]
                   * Cardinality({t[bucket] : t \in DroppedIn(r.zip_code)})
                 = r.trips[2] * Cardinality(DroppedIn(r.zip_code))

\* Two ZIP codes: one with a single trip on 10 January, the other with trips
\* until 1 February; the row of the first is dated 2 February as the row
\* of the other is, and its mean is 1 a day.
C30_Witness ==
  /\ CovidBuilt
  /\ Cardinality(db[dailyTripsTable].rows) = 2
  /\ \E r \in db[dailyTripsTable].rows :
       /\ r.day = 30
       /\ r.trips = <<1, 1>>
       /\ \A t \in DroppedIn(r.zip_code) : t.day = 7
  /\ \E q \in db[weeklyTripsTable].rows :
       q.week_start = 34 /\ \A t \in DroppedIn(q.zip_code) : t.week_start = 6

====
